---- MODULE Spec2Model ----
(***************************************************************************)
(* Process lifecycle and state reconciliation of the dashboard:            *)
(* stateService (loadState/saveState/getProjectState/setProjectState),     *)
(* projectLifecycle (startProject/stopProject/isProjectRunning/            *)
(* getProjectPid) and tunnelLifecycle (startTunnel/stopTunnel/             *)
(* isTunnelRunning/getTunnelUrl and the stdout handler that captures the   *)
(* public URL), over an operating system that holds the processes.         *)
(***************************************************************************)
EXTENDS Integers, Sequences, FiniteSets, TLC

\* ------------------------------------------------------------------ bounds
\* Processes the dashboard may spawn in one run.
MaxSpawn == 1
\* Date.now() takes the values 0..MaxTime.
MaxTime == 1
Times == 0..MaxTime

\* The pids of processes that exist before the dashboard starts (state.json
\* outlives the dashboard, and so may name them); spawned ones get the next pids.
StalePids == {1}
MaxPid == Cardinality(StalePids) + MaxSpawn
Pids == 1..MaxPid
\* The project identifiers state.json may hold.
Ids == {"a", "b"}
\* The configured projects that the requests of a run address.
Projects == {"a"}
\* The public URLs a tunnel may print.
Urls == {"https://x.trycloudflare.com", "https://y.trycloudflare.com"}

\* ------------------------------------------------------------ JS values
\* A key that the object does not have (reading it yields undefined).
Absent == [t |-> "absent"]
\* A key that holds undefined (in memory only: JSON.stringify drops it).
Undefined == [t |-> "undefined"]
Null == [t |-> "null"]
Num(n) == [t |-> "number", v |-> n]
Str(s) == [t |-> "string", v |-> s]
Bool(b) == [t |-> "boolean", v |-> b]

\* !x of JavaScript.
Falsy(x) ==
  \/ x.t \in {"absent", "undefined", "null"}
  \/ (x.t = "number" /\ x.v = 0)
  \/ (x.t = "string" /\ x.v = "")
  \/ (x.t = "boolean" /\ ~x.v)

\* obj.k: a missing key reads as undefined.
Get(x) == IF x = Absent THEN Undefined ELSE x

\* x || null
OrNull(x) == IF Falsy(x) THEN Null ELSE x

Fields == {"pid", "startedAt", "tunnelPid", "tunnelStartedAt", "tunnelUrl",
           "tunnelUrlDiscoveredAt"}

\* {} : the object with no key.
EmptyObj == [k \in Fields |-> Absent]

\* { ...obj, k1: v1, ... } : upd is a function from the overwritten keys.
Spread(obj, upd) ==
  [k \in Fields |-> IF k \in DOMAIN upd THEN upd[k] ELSE obj[k]]

\* What JSON.stringify is sometimes believed to do: undefined is written as null.
StringifyNulls(obj) ==
  [k \in Fields |-> IF obj[k] = Undefined THEN Null ELSE obj[k]]

\* JSON.parse(JSON.stringify(obj)) of one project's object: a key of an object
\* that holds undefined is not written.
Stringify(obj) ==
  [k \in Fields |-> IF obj[k] = Undefined THEN Absent ELSE obj[k]]

VARIABLES
  doc,      \* state.json: [file, keys, obj]; file = FALSE when it does not exist
  procs,    \* the OS process table: pid -> status
  nextPid,  \* the pid the OS gives the next spawned process
  child,    \* per pid, the handlers this dashboard attached when it spawned it
  last,     \* the call the last step made, with what it returned and did
  stopped,  \* per project: stopProject returned and startProject was not called since
  firstUrl, \* per pid: the first URL match of its stdout stream (Absent: none yet)
  urlWrites, \* per pid: number of state writes its stdout handler made
  reqs,     \* the HTTP requests followed statement by statement (SpecRace)
  running,  \* the request whose handler is on the call stack, 0 when none is
  faults,   \* the ways child_process.spawn may fail on this host
  config,   \* dashboard.config.json (file) and configService's cachedConfig (cached)
  res,      \* the response of the last HTTP request
  server    \* the HTTP listener, its connections and the dashboard process

vars ==
  <<doc, procs, nextPid, child, last, stopped, firstUrl, urlWrites, reqs, running,
    faults, config, res, server>>

\* ------------------------------------------------------------ stateService
\* The content of a state file that does not exist, as loadState returns it.
EmptyState == [keys |-> {}, obj |-> [p \in Ids |-> EmptyObj]]

NoFile == [file |-> FALSE, keys |-> {}, obj |-> [p \in Ids |-> EmptyObj]]

\* loadState(): the parsed document, { projects: {} } on ENOENT.
loadState(d) ==
  IF d.file THEN [keys |-> d.keys, obj |-> d.obj] ELSE EmptyState

\* saveState(state): the file after writeFileSync(JSON.stringify(state)).
saveState(state) ==
  [file |-> TRUE,
   keys |-> state.keys,
   obj  |-> [p \in Ids |-> IF p \in state.keys THEN Stringify(state.obj[p])
                           ELSE EmptyObj]]

\* state.projects[projectId]: undefined when the document has no such key.
lookup(state, projectId) ==
  IF projectId \in state.keys THEN state.obj[projectId] ELSE Undefined

\* A bug getProjectState could have: the looked-up value is returned as it is.
getProjectStateRaw(d, projectId) == lookup(loadState(d), projectId)

\* getProjectState(projectId): the stored object, {} when there is none.
getProjectState(d, projectId) ==
  LET entry == lookup(loadState(d), projectId)
  IN  IF entry = Undefined THEN EmptyObj ELSE entry

\* A bug setProjectState could have: an object whose pid is cleared is deleted.
putProjectDropCleared(state, projectId, stateObject) ==
  IF stateObject.pid = Null
  THEN [keys |-> state.keys \ {projectId},
        obj  |-> [state.obj EXCEPT ![projectId] = EmptyObj]]
  ELSE [keys |-> state.keys \cup {projectId},
        obj  |-> [state.obj EXCEPT ![projectId] = stateObject]]

\* state.projects[projectId] = stateObject
putProject(state, projectId, stateObject) ==
  [keys |-> state.keys \cup {projectId},
   obj  |-> [state.obj EXCEPT ![projectId] = stateObject]]

\* A bug setProjectState could have: the document is rebuilt from the one entry.
setProjectStateOnlyThis(d, projectId, stateObject) ==
  saveState([keys |-> {projectId},
             obj  |-> [p \in Ids |-> IF p = projectId THEN stateObject
                                     ELSE EmptyObj]])

\* setProjectState(projectId, stateObject): load, replace one entry, save.
setProjectState(d, projectId, stateObject) ==
  saveState(putProject(loadState(d), projectId, stateObject))

\* A bug getProjectState could have: the entry it fills in is saved.
getProjectStateSaving(d, projectId) ==
  LET state == loadState(d)
      filled == IF lookup(state, projectId) = Undefined
                THEN putProject(state, projectId, EmptyObj) ELSE state
  IN  [ret |-> getProjectState(d, projectId), state |-> filled,
       file |-> saveState(filled)]

\* One run of getProjectState(projectId): the object it returns, the document
\* in memory, where a missing entry was filled in with {}, and state.json
\* afterwards, which no statement of the function writes.
getProjectStateRun(d, projectId) ==
  LET state == loadState(d)
      filled == IF lookup(state, projectId) = Undefined
                THEN putProject(state, projectId, EmptyObj) ELSE state
  IN  [ret |-> getProjectState(d, projectId), state |-> filled, file |-> d]

\* ------------------------------------------------------- operating system
\* "free": no process and no process group has this id.
\* "leader": a live process that leads its own process group (spawn detached).
\* "member": a live process of ours that leads no group.
\* "inaccessible": a live process of another user (signals fail with EPERM).
Statuses == {"free", "leader", "member", "inaccessible"}

\* The process exists, whoever owns it.
Exists(n) == n \in Pids /\ procs[n] \in {"leader", "member", "inaccessible"}

\* process.kill(target, sig) does not throw: target > 0 is a process,
\* target < 0 the process group -target.
killOkIn(ps, target) ==
  IF target > 0
  THEN target \in Pids /\ ps[target] \in {"leader", "member"}
  ELSE (0 - target) \in Pids /\ ps[0 - target] = "leader"

killOk(target) == killOkIn(procs, target)

\* A bug isProcessAlive could have: every recorded pid counts as dead.
isProcessAliveNever(pid) == FALSE

\* isProcessAlive(pid): signal 0 is delivered.
isProcessAliveIn(ps, pid) ==
  IF Falsy(pid) THEN FALSE ELSE pid.t = "number" /\ killOkIn(ps, pid.v)

isProcessAlive(pid) == isProcessAliveIn(procs, pid)

\* ------------------------------------------------------------ read-throughs
isProjectRunning(projectId) ==
  isProcessAlive(Get(getProjectState(doc, projectId).pid))

getProjectPid(projectId) ==
  LET pid == Get(getProjectState(doc, projectId).pid)
  IN  IF isProcessAlive(pid) THEN pid ELSE Null

isTunnelRunning(projectId) ==
  isProcessAlive(Get(getProjectState(doc, projectId).tunnelPid))

\* A bug getTunnelUrl could have: the stored URL is returned as it is.
getTunnelUrlStored(projectId) ==
  OrNull(Get(getProjectState(doc, projectId).tunnelUrl))

getTunnelUrl(projectId) ==
  LET projectState == getProjectState(doc, projectId)
  IN  IF isTunnelRunning(projectId) THEN OrNull(Get(projectState.tunnelUrl))
      ELSE Null

\* The read-throughs when state.json is d and the process table is ps.
isProjectRunningIn(d, ps, projectId) ==
  isProcessAliveIn(ps, Get(getProjectState(d, projectId).pid))

isTunnelRunningIn(d, ps, projectId) ==
  isProcessAliveIn(ps, Get(getProjectState(d, projectId).tunnelPid))

getTunnelUrlIn(d, ps, projectId) ==
  IF isTunnelRunningIn(d, ps, projectId)
  THEN OrNull(Get(getProjectState(d, projectId).tunnelUrl))
  ELSE Null

\* ------------------------------------------------------------- errors
\* The message of an error: the text of its template and the values put in.
Message(text, field, index, detail) ==
  [text |-> text, field |-> field, index |-> index, detail |-> detail]

\* An error object: its class, its code (of file system errors) and its message.
Err(name, code, message) == [name |-> name, code |-> code, message |-> message]

\* No error was thrown.
NoError == Err("", "", Message("", "", 0 - 1, ""))

\* ------------------------------------------------------------- lifecycle
\* What one step did: the call, its project, the process it is about, the value
\* returned, the signals sent (in order, each with whether delivery succeeded),
\* whether it spawned a process and whether it wrote state.json; and the lines
\* it appended to the project's log files, in order.
Did(op, id, pid, ret, sigs, spawned, wrote) ==
  [op |-> op, id |-> id, pid |-> pid, ret |-> ret, sigs |-> sigs,
   spawned |-> spawned, wrote |-> wrote, arg |-> Null, read |-> FALSE,
   error |-> NoError, logged |-> <<>>]

\* The same for a call of the stateService, with the argument it was given.
DidState(op, id, arg, ret, wrote) ==
  [Did(op, id, Null, ret, <<>>, FALSE, wrote) EXCEPT !.arg = arg]

NoChild == [kind |-> "none", id |-> "", urlCaptured |-> FALSE]

\* spawn(..., { detached: true }): the new process leads its own process group,
\* and the handlers attached to it belong to this run of the dashboard.
Spawn(kind, id) ==
  /\ nextPid <= MaxPid
  /\ procs' = [procs EXCEPT ![nextPid] = "leader"]
  /\ child' = [child EXCEPT ![nextPid] =
                 [kind |-> kind, id |-> id, urlCaptured |-> FALSE]]
  /\ nextPid' = nextPid + 1

\* child.pid
childPid == Num(nextPid)

\* What a call threw instead of returning.
Thrown == [t |-> "thrown"]

\* What child_process.spawn does: "spawned", the process runs and child.pid is
\* its pid; "threw", spawn throws in the caller; "nopid", the failure (no such
\* working directory, no more processes) is reported later by an 'error' event
\* and spawn returns a child whose pid is undefined.
SpawnOutcomes == {"spawned", "threw", "nopid"}

\* The kill attempts of stopProject and stopTunnel: the process group first, the
\* process itself only when the group could not be signalled.
killAttempts(n) ==
  IF killOk(0 - n)
  THEN <<[target |-> 0 - n, ok |-> TRUE]>>
  ELSE <<[target |-> 0 - n, ok |-> FALSE], [target |-> n, ok |-> killOk(n)]>>

\* A bug the stop functions could have: only null and undefined count as no pid.
nothingToStopNullish(pid) == pid.t \in {"absent", "undefined", "null"}

\* if (!pid): there is nothing to stop.
nothingToStop(pid) == Falsy(pid)

\* A bug the stop functions could have: only the group kill counts.
killedGroupOnly(sigs) == sigs[1].ok

\* let killed: true once a kill attempt did not throw.
killed(sigs) == \E i \in DOMAIN sigs : sigs[i].ok

\* A bug startProject could have: the new object replaces the stored one.
startedStateFresh(projectState, pid, now) ==
  Spread(EmptyObj, [pid |-> pid, startedAt |-> Num(now)])

\* { ...getProjectState(id), pid: child.pid, startedAt: Date.now() }
startedState(projectState, pid, now) ==
  Spread(projectState, [pid |-> pid, startedAt |-> Num(now)])

\* A bug stopProject could have: the recorded pid is not cleared.
stoppedStateKeepsPid(projectState) ==
  Spread(projectState, [startedAt |-> Null])

\* { ...getProjectState(id), pid: null, startedAt: null }
stoppedState(projectState) ==
  Spread(projectState, [pid |-> Null, startedAt |-> Null])

\* The messages the lifecycle functions hand to appendLog, per log file.
LogTexts ==
  [app |->
     [already |-> "Project already running with PID ${projectState.pid}",
      start |-> "START: ${project.start}",
      started |-> "Process started with PID ${child.pid}",
      nothing |-> "No running process to stop",
      stop |-> "STOP: Killing process group for PID ${pid}",
      group |-> "Process group killed (SIGTERM)",
      self |-> "Process killed (SIGTERM)",
      failed |-> "Failed to kill process: ${err.message}"],
   tunnel |->
     [already |-> "Tunnel already running with PID ${projectState.tunnelPid}",
      start |-> "START: cloudflared tunnel on port ${project.tunnelPort}",
      started |-> "Tunnel process started with PID ${child.pid}",
      nothing |-> "No running tunnel process to stop",
      stop |-> "STOP: Killing tunnel process group for PID ${pid}",
      group |-> "Tunnel process group killed (SIGTERM)",
      self |-> "Tunnel process killed (SIGTERM)",
      failed |-> "Failed to kill tunnel process: ${err.message}"]]

\* A line of the log file <id>.<type>.log: its message and the value put in.
Line(type, key, value) == [type |-> type, text |-> LogTexts[type][key], value |-> value]

\* The step with the lines it appended.
Logged(did, lines) == [did EXCEPT !.logged = lines]

\* appendLog of utils/logging throws when the line cannot be written. The
\* appendLog calls of one lifecycle call are numbered as they are made; the
\* numbers of those that throw, on a host where log writes may fail.
WriteFailures == IF "nolog" \in faults THEN SUBSET (1..4) ELSE {{}}

\* A bug the stop functions could have: the process is signalled after its
\* group in every case.
killAndLogBoth(type, n, failing) ==
  [sigs |-> <<[target |-> 0 - n, ok |-> killOk(0 - n)], [target |-> n, ok |-> killOk(n)]>>,
   logged |-> <<Line(type, "stop", Num(n)),
                Line(type, IF killOk(0 - n) THEN "group"
                           ELSE IF killOk(n) THEN "self" ELSE "failed", Null)>>,
   thrown |-> FALSE]

\* The stop functions from the STOP line to the end of the try blocks: the
\* signals sent, the lines written and whether an appendLog call threw out of
\* the function. A throw of the appendLog call that follows the group kill is
\* caught like a failed kill, and so is one that follows the kill of the pid.
killAndLog(type, n, failing) ==
  LET group == killOk(0 - n)
      self == killOk(n)
      stop == Line(type, "stop", Num(n))
      both == <<[target |-> 0 - n, ok |-> group], [target |-> n, ok |-> self]>>
      next == IF group THEN 3 ELSE 2
      after == IF self THEN next + 1 ELSE next
  IN  IF 1 \in failing
      THEN [sigs |-> <<>>, logged |-> <<>>, thrown |-> TRUE]
      ELSE IF group /\ 2 \notin failing
      THEN [sigs |-> killAttempts(n), logged |-> <<stop, Line(type, "group", Null)>>,
            thrown |-> FALSE]
      ELSE IF self /\ next \notin failing
      THEN [sigs |-> both, logged |-> <<stop, Line(type, "self", Null)>>,
            thrown |-> FALSE]
      ELSE IF after \notin failing
      THEN [sigs |-> both, logged |-> <<stop, Line(type, "failed", Null)>>,
            thrown |-> FALSE]
      ELSE [sigs |-> both, logged |-> <<stop>>, thrown |-> TRUE]

startProject(id) ==
  \E failing \in WriteFailures :
  LET projectState == getProjectState(doc, id)
      pid == Get(projectState.pid)
      start == Line("app", "start", Null)
      ended(ret, childpid) ==
        IF 2 \in failing THEN Logged(Did("startProject", id, Null, Thrown, <<>>, ret # Undefined, TRUE),
                                    <<start>>)
        ELSE Logged(Did("startProject", id, Null, ret, <<>>, ret # Undefined, TRUE),
                    <<start, Line("app", "started", childpid)>>)
  IN  /\ UNCHANGED <<reqs, running, faults, server>>
      /\ stopped' = [stopped EXCEPT ![id] = FALSE]
      /\ UNCHANGED <<firstUrl, urlWrites>>
      /\ IF isProcessAlive(pid)
         THEN /\ last' = IF 1 \in failing
                         THEN Did("startProject", id, Null, Thrown, <<>>, FALSE, FALSE)
                         ELSE Logged(Did("startProject", id, Null, pid, <<>>, FALSE, FALSE),
                                     <<Line("app", "already", pid)>>)
              /\ UNCHANGED <<doc, procs, nextPid, child>>
         ELSE IF 1 \in failing
         THEN /\ last' = Did("startProject", id, Null, Thrown, <<>>, FALSE, FALSE)
              /\ UNCHANGED <<doc, procs, nextPid, child>>
         ELSE \E outcome \in {"spawned"} \cup faults :
                \/ /\ outcome = "spawned"
                   /\ Spawn("app", id)
                   /\ \E now \in Times :
                        doc' = setProjectState(doc, id,
                                 startedState(getProjectState(doc, id), childPid, now))
                   /\ last' = ended(childPid, childPid)
                \/ /\ outcome = "threw"
                   /\ last' = Logged(Did("startProject", id, Null, Thrown, <<>>, FALSE, FALSE),
                                     <<start>>)
                   /\ UNCHANGED <<doc, procs, nextPid, child>>
                \/ /\ outcome = "nopid"
                   /\ \E now \in Times :
                        doc' = setProjectState(doc, id,
                                 startedState(getProjectState(doc, id), Undefined, now))
                   /\ last' = ended(Undefined, Undefined)
                   /\ UNCHANGED <<procs, nextPid, child>>

stopProject(id) ==
  \E failing \in WriteFailures :
  LET projectState == getProjectState(doc, id)
      pid == Get(projectState.pid)
  IN  /\ UNCHANGED <<reqs, running, faults, server>>
      /\ UNCHANGED <<procs, nextPid, child, firstUrl, urlWrites>>
      /\ IF nothingToStop(pid)
         THEN /\ last' = IF 1 \in failing
                         THEN Did("stopProject", id, Null, Thrown, <<>>, FALSE, FALSE)
                         ELSE Logged(Did("stopProject", id, Null, Bool(FALSE), <<>>, FALSE,
                                         FALSE),
                                     <<Line("app", "nothing", Null)>>)
              /\ stopped' = IF 1 \in failing THEN stopped
                            ELSE [stopped EXCEPT ![id] = TRUE]
              /\ UNCHANGED doc
         ELSE LET run == killAndLog("app", pid.v, failing)
              IN  IF run.thrown
                  THEN /\ last' = Logged(Did("stopProject", id, Null, Thrown, run.sigs,
                                             FALSE, FALSE), run.logged)
                       /\ UNCHANGED <<doc, stopped>>
                  ELSE /\ doc' = setProjectState(doc, id,
                                   stoppedState(getProjectState(doc, id)))
                       /\ last' = Logged(Did("stopProject", id, Null,
                                             Bool(killed(run.sigs)), run.sigs, FALSE,
                                             TRUE), run.logged)
                       /\ stopped' = [stopped EXCEPT ![id] = TRUE]

\* A bug startTunnel could have: the tunnel's pid is stored in the app's fields.
tunnelStartedStateAsApp(projectState, pid, now) ==
  Spread(projectState, [pid |-> pid, startedAt |-> Num(now)])

\* { ...getProjectState(id), tunnelPid: child.pid, tunnelStartedAt: Date.now() }
tunnelStartedState(projectState, pid, now) ==
  Spread(projectState, [tunnelPid |-> pid, tunnelStartedAt |-> Num(now)])

\* A bug stopTunnel could have: the URL and its timestamp are left behind.
tunnelStoppedStateKeepsUrl(projectState) ==
  Spread(projectState, [tunnelPid |-> Null, tunnelStartedAt |-> Null])

\* { ...getProjectState(id), tunnelPid: null, tunnelStartedAt: null,
\*   tunnelUrl: null, tunnelUrlDiscoveredAt: null }
tunnelStoppedState(projectState) ==
  Spread(projectState, [tunnelPid |-> Null, tunnelStartedAt |-> Null,
                        tunnelUrl |-> Null, tunnelUrlDiscoveredAt |-> Null])

startTunnel(id) ==
  \E failing \in WriteFailures :
  LET projectState == getProjectState(doc, id)
      pid == Get(projectState.tunnelPid)
      start == Line("tunnel", "start", Null)
      ended(ret, childpid) ==
        IF 2 \in failing THEN Logged(Did("startTunnel", id, Null, Thrown, <<>>, ret # Undefined, TRUE),
                                    <<start>>)
        ELSE Logged(Did("startTunnel", id, Null, ret, <<>>, ret # Undefined, TRUE),
                    <<start, Line("tunnel", "started", childpid)>>)
  IN  /\ UNCHANGED <<reqs, running, faults, server>>
      /\ UNCHANGED <<stopped, firstUrl, urlWrites>>
      /\ IF isProcessAlive(pid)
         THEN /\ last' = IF 1 \in failing
                         THEN Did("startTunnel", id, Null, Thrown, <<>>, FALSE, FALSE)
                         ELSE Logged(Did("startTunnel", id, Null, pid, <<>>, FALSE, FALSE),
                                     <<Line("tunnel", "already", pid)>>)
              /\ UNCHANGED <<doc, procs, nextPid, child>>
         ELSE IF 1 \in failing
         THEN /\ last' = Did("startTunnel", id, Null, Thrown, <<>>, FALSE, FALSE)
              /\ UNCHANGED <<doc, procs, nextPid, child>>
         ELSE \E outcome \in {"spawned"} \cup faults :
                \/ /\ outcome = "spawned"
                   /\ Spawn("tunnel", id)
                   /\ \E now \in Times :
                        doc' = setProjectState(doc, id,
                                 tunnelStartedState(getProjectState(doc, id), childPid, now))
                   /\ last' = ended(childPid, childPid)
                \/ /\ outcome = "threw"
                   /\ last' = Logged(Did("startTunnel", id, Null, Thrown, <<>>, FALSE, FALSE),
                                     <<start>>)
                   /\ UNCHANGED <<doc, procs, nextPid, child>>
                \/ /\ outcome = "nopid"
                   /\ \E now \in Times :
                        doc' = setProjectState(doc, id,
                                 tunnelStartedState(getProjectState(doc, id), Undefined, now))
                   /\ last' = ended(Undefined, Undefined)
                   /\ UNCHANGED <<procs, nextPid, child>>

stopTunnel(id) ==
  \E failing \in WriteFailures :
  LET projectState == getProjectState(doc, id)
      pid == Get(projectState.tunnelPid)
  IN  /\ UNCHANGED <<reqs, running, faults, server>>
      /\ UNCHANGED <<procs, nextPid, child, firstUrl, urlWrites>>
      /\ IF nothingToStop(pid)
         THEN /\ last' = IF 1 \in failing
                         THEN Did("stopTunnel", id, Null, Thrown, <<>>, FALSE, FALSE)
                         ELSE Logged(Did("stopTunnel", id, Null, Bool(FALSE), <<>>, FALSE,
                                         FALSE),
                                     <<Line("tunnel", "nothing", Null)>>)
              /\ UNCHANGED stopped
              /\ UNCHANGED doc
         ELSE LET run == killAndLog("tunnel", pid.v, failing)
              IN  IF run.thrown
                  THEN /\ last' = Logged(Did("stopTunnel", id, Null, Thrown, run.sigs,
                                             FALSE, FALSE), run.logged)
                       /\ UNCHANGED <<doc, stopped>>
                  ELSE /\ doc' = setProjectState(doc, id,
                                   tunnelStoppedState(getProjectState(doc, id)))
                       /\ last' = Logged(Did("stopTunnel", id, Null,
                                             Bool(killed(run.sigs)), run.sigs, FALSE,
                                             TRUE), run.logged)
                       /\ UNCHANGED stopped

\* ------------------------------------------------- the tunnel's stdout handler
\* A chunk of output is a sequence of tokens: a public URL or other text.
\* The chunks are those of one token, and those of two in which other text or
\* another URL comes before a URL.
Noise == "noise"
Tokens == Urls \cup {Noise}
Chunks ==
  {<<t>> : t \in Tokens}
  \cup {<<t, "https://x.trycloudflare.com">> :
          t \in Tokens \ {"https://x.trycloudflare.com"}}

Min(S) == CHOOSE x \in S : \A y \in S : x <= y

\* output.match(/https:\/\/([a-zA-Z0-9-]+\.trycloudflare\.com)/): the leftmost
\* URL of the chunk, null when it holds none.
match(output) ==
  LET at == {i \in DOMAIN output : output[i] \in Urls}
  IN  IF at = {} THEN Null ELSE Str(output[Min(at)])

\* A bug the handler could have: the flag is not consulted.
mayCaptureAlways(urlCaptured) == TRUE

\* if (!urlCaptured)
mayCapture(urlCaptured) == ~urlCaptured

Inc(n) == IF n < 2 THEN n + 1 ELSE n

\* { ...getProjectState(id), tunnelUrl, tunnelUrlDiscoveredAt: Date.now() }
discoveredState(projectState, tunnelUrl, now) ==
  Spread(projectState, [tunnelUrl |-> tunnelUrl,
                        tunnelUrlDiscoveredAt |-> Num(now)])

\* child.stdout.on("data", ...) of the tunnel process pid.
stdoutData(pid, output) ==
  LET id == child[pid].id
      urlMatch == match(output)
  IN  /\ child[pid].kind = "tunnel"
      /\ UNCHANGED <<reqs, running, faults, server, config, res>>
      /\ UNCHANGED <<procs, nextPid, stopped>>
      /\ firstUrl' = [firstUrl EXCEPT ![pid] =
                        IF @ = Absent /\ urlMatch # Null THEN urlMatch ELSE @]
      /\ IF mayCapture(child[pid].urlCaptured) /\ urlMatch # Null
         THEN /\ \E now \in Times :
                   doc' = setProjectState(doc, id,
                            discoveredState(getProjectState(doc, id), urlMatch, now))
              /\ child' = [child EXCEPT ![pid].urlCaptured = TRUE]
              /\ urlWrites' = [urlWrites EXCEPT ![pid] = Inc(@)]
              /\ last' = Did("stdout", id, Num(pid), urlMatch, <<>>, FALSE, TRUE)
         ELSE /\ UNCHANGED <<doc, child, urlWrites>>
              /\ last' = Did("stdout", id, Num(pid), urlMatch, <<>>, FALSE, FALSE)

\* ------------------------------------------------------------ environment
\* A process ends, of itself or by a signal, outside the dashboard's control.
exit(pid) ==
  /\ procs[pid] # "free"
  /\ procs' = [procs EXCEPT ![pid] = "free"]
  /\ last' = Did("exit", "", Null, Null, <<>>, FALSE, FALSE)
  /\ UNCHANGED <<doc, nextPid, child, stopped, firstUrl, urlWrites, reqs, running,
                 faults, server, config, res>>

\* ------------------------------------------------- configuration validator
\* A JSON array.
Arr(items) == [t |-> "array", items |-> items]

\* A number with a fractional part: n + 1/2.
Half(n) == [t |-> "number", v |-> n, half |-> TRUE]

\* A JSON object: the values above carry a tag, an object is a record of its keys.
isObject(x) == "t" \notin DOMAIN x

\* Array.isArray(x)
isArray(x) == ~isObject(x) /\ x.t = "array"

\* typeof x
typeOf(x) ==
  IF isObject(x) THEN "object"
  ELSE IF x.t \in {"null", "array"} THEN "object"
  ELSE IF x.t = "absent" THEN "undefined"
  ELSE x.t

\* Number.isInteger(x)
isInteger(x) == typeOf(x) = "number" /\ "half" \notin DOMAIN x

\* x[field]: undefined when x is no object or has no such key.
Field(x, field) == IF isObject(x) THEN Get(x[field]) ELSE Undefined

\* s.trim() over the strings of the model: "" and " " are the blank ones.
Trim(s) == IF s \in {"", " "} THEN "" ELSE s

\* The largest port number.
MaxPort == 65535

\* !Number.isInteger(port) || port < 0 || port > 65535
badPort(port) == ~isInteger(port) \/ port.v < 0 \/ port.v > MaxPort

\* The outcome of a validation: it returned, or it threw an error whose message
\* says what is wrong (kind), with which field, and for a project entry at
\* which index of the projects array.
Valid == [err |-> "none"]
ConfigError(kind, field) == [err |-> kind, field |-> field]
ProjectError(kind, field, index) == [err |-> kind, field |-> field, index |-> index]

requiredFields == <<"id", "name", "dir", "start", "port">>

\* The string fields that validateProject checks, in the order it checks them.
stringFields == <<"id", "name", "dir", "start">>

\* validateProject(project, index)
validateProject(project, index) ==
  IF (~isObject(project) /\ ~isArray(project) /\ Falsy(project))
     \/ typeOf(project) # "object"
  THEN ProjectError("mustBeObject", "", index)
  ELSE
    LET missing == {i \in DOMAIN requiredFields :
                      Field(project, requiredFields[i]) = Undefined}
        notString == {i \in DOMAIN stringFields :
                        \/ typeOf(Field(project, stringFields[i])) # "string"
                        \/ Trim(Field(project, stringFields[i]).v) = ""}
        port == Field(project, "port")
    IN  IF missing # {}
        THEN ProjectError("missing", requiredFields[Min(missing)], index)
        ELSE IF notString # {}
        THEN ProjectError("mustBeNonEmptyString", stringFields[Min(notString)], index)
        ELSE IF typeOf(port) # "number"
        THEN ProjectError("mustBeNumber", "port", index)
        ELSE IF badPort(port)
        THEN ProjectError("mustBeValidPort", "port", index)
        ELSE Valid

\* A bug validateConfig could have: the last invalid entry is reported.
firstInvalidIsLast(items) ==
  LET bad == {i \in DOMAIN items : validateProject(items[i], i - 1) # Valid}
  IN  IF bad = {} THEN 0 ELSE CHOOSE i \in bad : \A j \in bad : j <= i

\* config.projects.forEach(validateProject): the position of the entry whose
\* validation throws, 0 when none does.
firstInvalid(items) ==
  LET bad == {i \in DOMAIN items : validateProject(items[i], i - 1) # Valid}
  IN  IF bad = {} THEN 0 ELSE Min(bad)

\* A bug validateConfig could have: projects is checked before port.
validateConfigProjectsFirst(cfg) ==
  IF (~isObject(cfg) /\ Falsy(cfg)) \/ typeOf(cfg) # "object" \/ isArray(cfg)
  THEN ConfigError("mustBeObject", "")
  ELSE IF ~isArray(Field(cfg, "projects"))
  THEN ConfigError("mustBeArray", "projects")
  ELSE IF Field(cfg, "port") = Undefined
  THEN ConfigError("missing", "port")
  ELSE IF typeOf(Field(cfg, "port")) # "number"
  THEN ConfigError("mustBeNumber", "port")
  ELSE IF badPort(Field(cfg, "port"))
  THEN ConfigError("mustBeValidPort", "port")
  ELSE LET items == Field(cfg, "projects").items
           i == firstInvalid(items)
       IN  IF i = 0 THEN Valid ELSE validateProject(items[i], i - 1)

\* validateConfig(config)
validateConfig(cfg) ==
  IF (~isObject(cfg) /\ Falsy(cfg)) \/ typeOf(cfg) # "object" \/ isArray(cfg)
  THEN ConfigError("mustBeObject", "")
  ELSE IF Field(cfg, "port") = Undefined
  THEN ConfigError("missing", "port")
  ELSE IF typeOf(Field(cfg, "port")) # "number"
  THEN ConfigError("mustBeNumber", "port")
  ELSE IF badPort(Field(cfg, "port"))
  THEN ConfigError("mustBeValidPort", "port")
  ELSE IF ~isArray(Field(cfg, "projects"))
  THEN ConfigError("mustBeArray", "projects")
  ELSE LET items == Field(cfg, "projects").items
           i == firstInvalid(items)
       IN  IF i = 0 THEN Valid ELSE validateProject(items[i], i - 1)

\* A project definition of dashboard.config.json.
ProjectDef(id, port) ==
  [id |-> Str(id), name |-> Str("n"), dir |-> Str("d"), start |-> Str("s"),
   port |-> Num(port)]

\* The configuration the dashboard runs with: its one project is that of Projects.
RunConfig ==
  [port |-> Num(8787), projects |-> Arr(<<ProjectDef("a", 3000)>>)]

\* ------------------------------------------------------------ configService
\* dashboard.config.json does not exist; it exists and is no JSON.
NoConfigFile == [t |-> "missing"]
BadJson == [t |-> "garbage"]

\* A call of the configService: what it returned and whether it read the file.
DidConfig(op, id, ret, read) ==
  [Did(op, id, Null, ret, <<>>, FALSE, FALSE) EXCEPT !.read = read]

\* new Error(...) of validateConfig and validateProject for the outcome e.
validationError(e) ==
  LET field == IF "field" \in DOMAIN e THEN e.field ELSE ""
      index == IF "index" \in DOMAIN e THEN e.index ELSE 0 - 1
      text ==
        IF "index" \in DOMAIN e
        THEN CASE e.err = "mustBeObject" ->
                    "Invalid configuration: project at index ${index} must be a valid object"
               [] e.err = "missing" ->
                    "Invalid configuration: project at index ${index} missing required field: \"${field}\""
               [] e.err = "mustBeNonEmptyString" ->
                    "Invalid configuration: project at index ${index} \"${field}\" must be a non-empty string"
               [] e.err = "mustBeNumber" ->
                    "Invalid configuration: project at index ${index} \"port\" must be a number, got ${typeof project.port}"
               [] e.err = "mustBeValidPort" ->
                    "Invalid configuration: project at index ${index} \"port\" must be a valid port number (0-65535), got ${project.port}"
        ELSE CASE e.err = "mustBeObject" -> "Configuration must be a valid JSON object"
               [] e.err = "missing" -> "Configuration missing required field: \"port\""
               [] e.err = "mustBeNumber" ->
                    "Invalid configuration: \"port\" must be a number, got ${typeof config.port}"
               [] e.err = "mustBeValidPort" ->
                    "Invalid configuration: \"port\" must be a valid port number (0-65535), got ${config.port}"
               [] e.err = "mustBeArray" ->
                    "Invalid configuration: \"projects\" must be an array, got ${typeof config.projects}"
  IN  Err("Error", "", Message(text, field, index, ""))

\* What fs.readFileSync throws for a missing file, what JSON.parse throws.
ENOENT ==
  Err("Error", "ENOENT",
      Message("ENOENT: no such file or directory, open '${path}'", "", 0 - 1, ""))
SyntaxError ==
  Err("SyntaxError", "", Message("Unexpected token", "", 0 - 1, ""))

\* A bug loadConfig could have: every failure is reported as a missing file.
rethrowNotFound(error) ==
  Err("Error", "",
      Message("Configuration file not found at ${CONFIG_PATH}", "", 0 - 1, ""))

\* The catch block of loadConfig.
rethrow(error) ==
  IF error.code = "ENOENT"
  THEN Err("Error", "",
           Message("Configuration file not found at ${CONFIG_PATH}", "", 0 - 1, ""))
  ELSE IF error.name = "SyntaxError"
  THEN Err("Error", "",
           Message("Invalid JSON in configuration file: ${error.message}", "",
                   0 - 1, error.message.text))
  ELSE error

\* A bug the getters could have: the file is read on every call.
needsLoadAlways(cached) == TRUE

\* if (!cachedConfig)
needsLoad(cached) == ~isObject(cached) /\ Falsy(cached)

\* loadConfig(): the new cache and the value returned. The parsed document is
\* cached before it is validated.
loadConfig(cfg) ==
  IF cfg.file = NoConfigFile
  THEN [config |-> cfg, ret |-> Thrown, read |-> TRUE, error |-> rethrow(ENOENT)]
  ELSE IF cfg.file = BadJson
  THEN [config |-> cfg, ret |-> Thrown, read |-> TRUE, error |-> rethrow(SyntaxError)]
  ELSE IF validateConfig(cfg.file) # Valid
  THEN [config |-> [cfg EXCEPT !.cached = cfg.file], ret |-> Thrown, read |-> TRUE,
        error |-> rethrow(validationError(validateConfig(cfg.file)))]
  ELSE [config |-> [cfg EXCEPT !.cached = cfg.file], ret |-> cfg.file,
        read |-> TRUE, error |-> NoError]

\* reloadConfig(): cachedConfig = null; return loadConfig()
reloadConfig(cfg) == loadConfig([cfg EXCEPT !.cached = Null])

\* if (!cachedConfig) loadConfig()
ensureLoaded(cfg) ==
  IF needsLoad(cfg.cached) THEN loadConfig(cfg)
  ELSE [config |-> cfg, ret |-> cfg.cached, read |-> FALSE, error |-> NoError]

\* A bug getProject could have: the first project is returned for every id.
findProjectFirst(cached, id) ==
  LET projects == Field(cached, "projects")
  IN  IF ~isArray(projects) \/ projects.items = <<>> THEN Null
      ELSE projects.items[1]

\* cachedConfig.projects.find((p) => p.id === id) || null, null when projects
\* is no array; reading the id of a null entry throws.
findProject(cached, id) ==
  LET projects == Field(cached, "projects")
  IN  IF ~isArray(projects) THEN Null
      ELSE LET at == {i \in DOMAIN projects.items :
                        \/ projects.items[i] = Null
                        \/ Field(projects.items[i], "id") = Str(id)}
           IN  IF at = {} THEN Null
               ELSE IF projects.items[Min(at)] = Null THEN Thrown
               ELSE projects.items[Min(at)]

\* getProject(id)
getProject(cfg, id) ==
  LET l == ensureLoaded(cfg)
      found == findProject(l.config.cached, id)
  IN  IF l.ret = Thrown THEN l
      ELSE [l EXCEPT !.ret = found,
                     !.error = IF found = Thrown
                               THEN Err("TypeError", "",
                                        Message("Cannot read properties of null (reading 'id')",
                                                "", 0 - 1, ""))
                               ELSE NoError]

\* getAllProjects()
getAllProjects(cfg) ==
  LET l == ensureLoaded(cfg)
  IN  IF l.ret = Thrown THEN l
      ELSE [l EXCEPT !.ret = IF isArray(Field(l.config.cached, "projects"))
                             THEN l.config.cached.projects ELSE Arr(<<>>)]

\* getConfig()
getConfig(cfg) ==
  [config |-> cfg, ret |-> cfg.cached, read |-> FALSE, error |-> NoError]

\* No request was answered yet.
NoRes == [route |-> "", id |-> "", status |-> 0, error |-> "", body |-> Null]

\* ------------------------------------------------------- /api/projects routes
\* res.status(status).json({ error }) or res.status(status).json(body)
Res(route, id, status, error, body) ==
  [route |-> route, id |-> id, status |-> status, error |-> error, body |-> body]

\* x[k] of a project definition.
Prop(x, k) == IF isObject(x) /\ k \in DOMAIN x THEN Get(x[k]) ELSE Undefined

\* buildProjectStatus(project) when state.json is d and the process table is ps.
buildProjectStatus(project, d, ps) ==
  LET projectId == Prop(project, "id").v
      projectState == getProjectState(d, projectId)
  IN  [id |-> Prop(project, "id"),
       name |-> Prop(project, "name"),
       dir |-> Prop(project, "dir"),
       start |-> Prop(project, "start"),
       port |-> Prop(project, "port"),
       tunnelPort |-> Prop(project, "port"),
       running |-> Bool(isProjectRunningIn(d, ps, projectId)),
       pid |-> OrNull(Get(projectState.pid)),
       startedAt |-> OrNull(Get(projectState.startedAt)),
       tunnelRunning |-> Bool(isTunnelRunningIn(d, ps, projectId)),
       tunnelPid |-> OrNull(Get(projectState.tunnelPid)),
       tunnelUrl |-> getTunnelUrlIn(d, ps, projectId),
       tunnelStartedAt |-> OrNull(Get(projectState.tunnelStartedAt))]

\* What a handler leaves alone when it calls no lifecycle function.
NoLifecycle ==
  UNCHANGED <<doc, procs, nextPid, child, stopped, firstUrl, urlWrites, reqs,
              running, faults, server>>

\* What a handler leaves alone when it only builds the status of a project:
\* buildProjectStatus and the functions it calls run getProjectState.
Reading(projectId) ==
  /\ doc' = getProjectStateRun(doc, projectId).file
  /\ UNCHANGED <<procs, nextPid, child, stopped, firstUrl, urlWrites, reqs,
                 running, faults, server>>

\* The handler's first lines: getProject threw (500 with the handler's error),
\* or it found no project (404).
noProject(route, id, l, error) ==
  /\ l.ret \in {Thrown, Null}
  /\ res' = IF l.ret = Thrown THEN Res(route, id, 500, error, Null)
            ELSE Res(route, id, 404, "Project not found", Null)
  /\ last' = DidConfig("getProject", id, l.ret, l.read)
  /\ NoLifecycle

\* The handler's last lines: the catch block when the lifecycle call threw,
\* the project's status after the call otherwise.
answered(route, id, project, error) ==
  res' = IF last'.ret = Thrown THEN Res(route, id, 500, error, Null)
         ELSE Res(route, id, 200, "", buildProjectStatus(project, doc', procs'))

\* The error a lifecycle function throws on its first line.
invalidArgument(op) ==
  Err("Error", "",
      Message(CASE op = "startProject" ->
                     "Invalid project object: missing id, start command, or dir"
                [] op = "startTunnel" ->
                     "Invalid project object: missing id or tunnelPort"
                [] OTHER -> "Invalid project object: missing id",
              "", 0 - 1, ""))

\* A lifecycle function threw on its first line: the project is invalid.
invalidProject(op, id) ==
  /\ last' = [Did(op, id, Null, Thrown, <<>>, FALSE, FALSE)
                EXCEPT !.error = invalidArgument(op)]
  /\ NoLifecycle

\* A bug startProject could have: like stopProject it asks for the id only.
missingId(project) == Falsy(Prop(project, "id"))

\* startProject's first condition: no project, or one whose id, start or dir
\* is missing or falsy.
invalidStart(project) ==
  \/ (~isObject(project) /\ Falsy(project))
  \/ \E k \in {"id", "start", "dir"} : Falsy(Prop(project, k))

\* startProject(project), from its first line: the check of its argument, and
\* then what startProject does for the project's id.
startProjectOf(project) ==
  IF invalidStart(project)
  THEN /\ last' = [Did("startProject", "", Null, Thrown, <<>>, FALSE, FALSE)
                     EXCEPT !.error = invalidArgument("startProject"),
                            !.arg = project]
       /\ NoLifecycle
  ELSE startProject(Prop(project, "id").v)

\* In each handler l is what getProject(req.params.id) did, looked up once.
\* GET /api/projects/:id
routeStatus(id) ==
  \E l \in {getProject(config, id)} :
      /\ config' = l.config
      /\ \/ noProject("status", id, l, "Failed to load project")
         \/ /\ l.ret \notin {Thrown, Null}
            /\ res' = Res("status", id, 200, "", buildProjectStatus(l.ret, doc, procs))
            /\ last' = DidConfig("status", id, Null, l.read)
            /\ Reading(Prop(l.ret, "id").v)

\* state.json after buildProjectStatus has run for each of the projects.
RECURSIVE mapRead(_, _)
mapRead(d, projects) ==
  IF projects = <<>> THEN d
  ELSE mapRead(getProjectStateRun(d, Prop(Head(projects), "id").v).file,
               Tail(projects))

\* GET /api/projects
routeList ==
  \E l \in {getAllProjects(config)} :
      /\ config' = l.config
      /\ last' = DidConfig("list", "", IF l.ret = Thrown THEN Thrown ELSE Null, l.read)
      /\ res' = IF l.ret = Thrown
                THEN Res("list", "", 500, "Failed to load projects", Null)
                ELSE Res("list", "", 200, "",
                         [i \in DOMAIN l.ret.items |->
                            buildProjectStatus(l.ret.items[i], doc, procs)])
      /\ doc' = IF l.ret = Thrown THEN doc ELSE mapRead(doc, l.ret.items)
      /\ UNCHANGED <<procs, nextPid, child, stopped, firstUrl, urlWrites, reqs,
                     running, faults, server>>

\* POST /api/projects/:id/start
routeStart(id) ==
  \E l \in {getProject(config, id)} :
      /\ config' = l.config
      /\ \/ noProject("start", id, l, "Failed to start project")
         \/ /\ l.ret \notin {Thrown, Null}
            /\ startProjectOf(l.ret)
            /\ answered("start", id, l.ret, "Failed to start project")

\* POST /api/projects/:id/stop
routeStop(id) ==
  \E l \in {getProject(config, id)} :
      /\ config' = l.config
      /\ \/ noProject("stop", id, l, "Failed to stop project")
         \/ /\ l.ret \notin {Thrown, Null}
            /\ IF Falsy(Prop(l.ret, "id"))
               THEN invalidProject("stopProject", id)
               ELSE stopProject(Prop(l.ret, "id").v)
            /\ answered("stop", id, l.ret, "Failed to stop project")

\* POST /api/projects/:id/tunnel-start
routeTunnelStart(id) ==
  \E l \in {getProject(config, id)} :
  LET tunnelPort == IF Falsy(Prop(l.ret, "port")) THEN Prop(l.ret, "tunnelPort")
                    ELSE Prop(l.ret, "port")
  IN  /\ config' = l.config
      /\ \/ noProject("tunnel-start", id, l, "Failed to start tunnel")
         \/ /\ l.ret \notin {Thrown, Null}
            /\ IF Falsy(Prop(l.ret, "id")) \/ Falsy(tunnelPort)
               THEN invalidProject("startTunnel", id)
               ELSE startTunnel(Prop(l.ret, "id").v)
            /\ answered("tunnel-start", id, l.ret, "Failed to start tunnel")

\* POST /api/projects/:id/tunnel-stop
routeTunnelStop(id) ==
  \E l \in {getProject(config, id)} :
      /\ config' = l.config
      /\ \/ noProject("tunnel-stop", id, l, "Failed to stop tunnel")
         \/ /\ l.ret \notin {Thrown, Null}
            /\ IF Falsy(Prop(l.ret, "id"))
               THEN invalidProject("stopTunnel", id)
               ELSE stopTunnel(Prop(l.ret, "id").v)
            /\ answered("tunnel-stop", id, l.ret, "Failed to stop tunnel")

\* The text of a query parameter, character by character.
Chars(cs) == [t |-> "string", chars |-> cs]

\* NaN and -0, the two numbers that are no integer of the model.
NaN == [t |-> "NaN"]
NegZero == [t |-> "negzero"]

Digits == <<"0", "1", "2", "3", "4", "5", "6", "7", "8", "9">>
IsDigit(c) == \E i \in DOMAIN Digits : Digits[i] = c
DigitValue(c) == (CHOOSE i \in DOMAIN Digits : Digits[i] = c) - 1

\* The characters of cs from the first one that is no blank.
RECURSIVE SkipBlanks(_)
SkipBlanks(cs) ==
  IF cs # <<>> /\ Head(cs) = " " THEN SkipBlanks(Tail(cs)) ELSE cs

\* The value of the longest prefix of cs made of digits, after acc; -1 when cs
\* starts with no digit and acc is -1.
RECURSIVE DigitPrefix(_, _)
DigitPrefix(cs, acc) ==
  IF cs = <<>> \/ ~IsDigit(Head(cs)) THEN acc
  ELSE DigitPrefix(Tail(cs), (IF acc < 0 THEN 0 ELSE 10 * acc) + DigitValue(Head(cs)))

\* A stricter conversion than the handler uses: Number(string) is NaN for
\* every text that is not a number as a whole.
parseIntWhole(cs) ==
  LET body == IF cs # <<>> /\ Head(cs) \in {"-", "+"} THEN Tail(cs) ELSE cs
      n == DigitPrefix(body, -1)
  IN  IF body = <<>> \/ \E i \in DOMAIN body : ~IsDigit(body[i]) THEN NaN
      ELSE IF cs # <<>> /\ Head(cs) = "-" THEN (IF n = 0 THEN NegZero ELSE Num(-n))
      ELSE Num(n)

\* parseInt(string, 10): blanks are skipped, then a sign and the longest run
\* of digits are read and the rest of the text is ignored; NaN without a digit.
parseInt(cs) ==
  LET text == SkipBlanks(cs)
      negative == text # <<>> /\ Head(text) = "-"
      body == IF text # <<>> /\ Head(text) \in {"-", "+"} THEN Tail(text) ELSE text
      n == DigitPrefix(body, -1)
  IN  IF n < 0 THEN NaN
      ELSE IF negative THEN (IF n = 0 THEN NegZero ELSE Num(-n))
      ELSE Num(n)

\* The size limit of a request without maxBytes.
DefaultMaxBytes == 20000

\* A log file: it does not exist, it cannot be read, or it holds bytes.
NoLog == [t |-> "ENOENT"]
Unreadable == [t |-> "EACCES"]
LogFile(bytes) == [t |-> "file", bytes |-> bytes]

\* A bug readLog could have: the first maxBytes bytes are returned.
readLogHead(file, maxBytes) ==
  IF file = NoLog THEN Chars(<<>>)
  ELSE IF file = Unreadable THEN Thrown
  ELSE LET size == Len(file.bytes)
           m == IF maxBytes = NegZero THEN 0 ELSE maxBytes.v
       IN  Chars(SubSeq(file.bytes, 1, IF m < size THEN m ELSE size))

\* readLog(projectId, logType, maxBytes) when the log file of that project and
\* type is file: its last maxBytes bytes, "" when it does not exist.
readLog(file, maxBytes) ==
  IF file = NoLog THEN Chars(<<>>)
  ELSE IF file = Unreadable THEN Thrown
  ELSE LET size == Len(file.bytes)
           m == IF maxBytes = NegZero THEN 0 ELSE maxBytes.v
           start == IF size - m > 0 THEN size - m ELSE 0
       IN  Chars(SubSeq(file.bytes, start + 1, size))

\* !x for an argument that may be a text given character by character.
noText(x) == IF "chars" \in DOMAIN x THEN x.chars = <<>> ELSE Falsy(x)

\* new Date().toISOString() at the time now (milliseconds): 24 characters.
toISOString(now) ==
  <<"1", "9", "7", "0", "-", "0", "1", "-", "0", "1", "T", "0", "0", ":", "0", "0",
    ":", "0", "0", ".", "0", "0", Digits[now + 1], "Z">>

\* `${x}` of a message: the characters of a text.
Interpolated(message) ==
  IF "chars" \in DOMAIN message THEN message.chars ELSE <<"?">>

\* A bug appendLog could have: a newline is added to every line.
terminatedNever(line) == FALSE

\* line.endsWith("\n")
terminated(line) == line # <<>> /\ line[Len(line)] = "\n"

\* appendLog(projectId, logType, message) at the time now while the log file
\* of that project and type is file: the file afterwards and the error thrown.
appendLog(file, projectId, logType, message, now) ==
  IF Falsy(projectId) \/ Falsy(logType) \/ noText(message)
  THEN [file |-> file,
        error |-> Err("Error", "",
                      Message("projectId, logType, and message are required",
                              "", 0 - 1, ""))]
  ELSE LET line == <<"[">> \o toISOString(now) \o <<"]", " ">> \o Interpolated(message)
           content == IF terminated(line) THEN line ELSE line \o <<"\n">>
       IN  IF file = Unreadable
           THEN [file |-> file,
                 error |-> Err("Error", "EACCES",
                               Message("EACCES: permission denied, open '${path}'",
                                       "", 0 - 1, ""))]
           ELSE [file |-> LogFile((IF file = NoLog THEN <<>> ELSE file.bytes) \o content),
                 error |-> NoError]

\* GET /api/projects/:id/logs?type=&maxBytes= while the log file asked for is
\* file. A parameter that is not given is Absent.
routeLogs(id, type, maxBytes, file) ==
  \E l \in {getProject(config, id)} :
  LET logType == IF Falsy(type) THEN Str("app") ELSE type
      bytes == IF maxBytes = Absent \/ maxBytes = Chars(<<>>) THEN Num(DefaultMaxBytes)
               ELSE parseInt(maxBytes.chars)
      query == [type |-> type, maxBytes |-> maxBytes]
  IN  /\ config' = l.config
      /\ NoLifecycle
      /\ IF l.ret \in {Thrown, Null}
         THEN /\ res' = IF l.ret = Thrown
                        THEN Res("logs", id, 500, "Failed to read logs", Null)
                        ELSE Res("logs", id, 404, "Project not found", Null)
              /\ last' = [DidConfig("getProject", id, l.ret, l.read)
                            EXCEPT !.arg = query]
         ELSE IF logType \notin {Str("app"), Str("tunnel")}
         THEN /\ res' = Res("logs", id, 400,
                            "Invalid log type. Must be 'app' or 'tunnel'.", Null)
              /\ last' = [DidConfig("getProject", id, l.ret, l.read)
                            EXCEPT !.arg = query]
         ELSE IF bytes = NaN \/ (bytes.t = "number" /\ bytes.v < 0)
         THEN /\ res' = Res("logs", id, 400,
                            "maxBytes must be a non-negative number", Null)
              /\ last' = [DidConfig("getProject", id, l.ret, l.read)
                            EXCEPT !.arg = query]
         ELSE LET logContent == readLog(file, bytes)
              IN  /\ res' = IF logContent = Thrown
                             THEN Res("logs", id, 500, "Failed to read logs", Null)
                             ELSE Res("logs", id, 200, "", [logs |-> logContent])
                  /\ last' = [DidConfig("readLog", id, logContent, TRUE)
                                EXCEPT !.arg = query]

\* ------------------------------------------------------- static file middleware
\* A path is a sequence of segments, a segment a sequence of pieces of text
\* (so that "public2" starts with "public"); the string of a path has "/"
\* before each segment.
RECURSIVE PathString(_)
PathString(segments) ==
  IF segments = <<>> THEN <<>>
  ELSE <<"/">> \o Head(segments) \o PathString(Tail(segments))

\* path.normalize of the segments: "." is dropped and ".." removes the
\* segment before it, if there is one.
RECURSIVE Normalize(_, _)
Normalize(done, segments) ==
  IF segments = <<>> THEN done
  ELSE IF Head(segments) = <<".">> THEN Normalize(done, Tail(segments))
  ELSE IF Head(segments) = <<"..">>
  THEN Normalize(IF done = <<>> THEN done ELSE SubSeq(done, 1, Len(done) - 1),
                 Tail(segments))
  ELSE Normalize(Append(done, Head(segments)), Tail(segments))

\* path.join(a, b)
PathJoin(a, b) == Normalize(<<>>, a \o b)

\* string.startsWith(prefix)
StartsWith(string, prefix) ==
  Len(prefix) <= Len(string) /\ SubSeq(string, 1, Len(prefix)) = prefix

\* normalizedPath.startsWith(config.dirs.public)
underRoot(path, root) == StartsWith(PathString(path), PathString(root))

\* config.dirs.public
PublicDir == <<(<<"app">>), (<<"public">>)>>

\* The files and the directories of the host.
HostFiles ==
  {PublicDir \o <<(<<"index.html">>)>>,
   PublicDir \o <<(<<"a.css">>)>>,
   <<(<<"app">>), (<<"public", "2">>), (<<"a.css">>)>>,
   <<(<<"app">>), (<<"a.css">>)>>}
HostDirs ==
  {<<>>, <<(<<"app">>)>>, PublicDir, <<(<<"app">>), (<<"public", "2">>)>>}

\* staticFilesMiddleware(req, res, next) for req.path: the file handed to
\* res.sendFile with its headers, or the call of next().
staticFiles(reqPath) ==
  LET joined == PathJoin(PublicDir, reqPath)
      filePath == IF joined \in HostDirs THEN joined \o <<(<<"index.html">>)>>
                  ELSE joined
      indexPath == PublicDir \o <<(<<"index.html">>)>>
      html(path) == path # <<>> /\ path[Len(path)] = <<"index.html">>
      sent(path) ==
        [sent |-> TRUE, file |-> path,
         cacheControl |-> IF html(path) THEN "public, max-age=0, must-revalidate"
                          ELSE "public, max-age=31536000"]
      next == [sent |-> FALSE, file |-> <<>>, cacheControl |-> ""]
  IN  IF reqPath # <<>> /\ Len(reqPath) > 1 /\ Head(reqPath) = <<"api">> THEN next
      ELSE IF ~underRoot(joined, PublicDir) THEN next
      ELSE IF (joined \in HostFiles \/ joined \in HostDirs) /\ filePath \in HostFiles
      THEN sent(filePath)
      ELSE IF indexPath \in HostFiles THEN sent(indexPath)
      ELSE next

\* ------------------------------------------------------------- server entry
\* The connections a client may open.
Conns == {1, 2}

\* app.listen(config.port): the listener accepts connections, none is open, no
\* callback waits for the 'close' event and the process runs.
Listening ==
  [listening |-> TRUE, conns |-> [c \in Conns |-> "none"], onClose |-> FALSE,
   exited |-> FALSE]

\* What a step of the server leaves alone.
NoHandler ==
  UNCHANGED <<doc, procs, nextPid, child, stopped, firstUrl, urlWrites, reqs,
              running, faults, config, res>>

ServerDid(op, c) == DidState(op, "", Num(c), Null, FALSE)

\* The listener accepts a connection.
accept(c) ==
  /\ ~server.exited /\ server.listening
  /\ server.conns[c] = "none"
  /\ server' = [server EXCEPT !.conns[c] = "idle"]
  /\ last' = ServerDid("accept", c)
  /\ NoHandler

\* A request arrives on an open connection.
request(c) ==
  /\ ~server.exited
  /\ server.conns[c] = "idle"
  /\ server' = [server EXCEPT !.conns[c] = "busy"]
  /\ last' = ServerDid("request", c)
  /\ NoHandler

\* The response of a connection's request has been written.
finish(c) ==
  /\ ~server.exited
  /\ server.conns[c] = "busy"
  /\ server' = [server EXCEPT !.conns[c] = "idle"]
  /\ last' = ServerDid("finish", c)
  /\ NoHandler

\* A connection without a request ends: its client closes it or its keep-alive
\* timeout passes.
end(c) ==
  /\ ~server.exited
  /\ server.conns[c] = "idle"
  /\ server' = [server EXCEPT !.conns[c] = "none"]
  /\ last' = ServerDid("end", c)
  /\ NoHandler

\* server.close(callback): the listener stops accepting; the callback waits for
\* the 'close' event. Node 19 and later also close the connections that have
\* no request, earlier versions leave them to their clients and timeouts.
close(s) ==
  {[s EXCEPT !.listening = FALSE, !.onClose = TRUE, !.conns = conns] :
     conns \in {s.conns,
                [c \in Conns |-> IF s.conns[c] = "idle" THEN "none" ELSE s.conns[c]]}}

\* process.on("SIGTERM" | "SIGINT", ...): the handler of the signal.
signal(name) ==
  /\ ~server.exited
  /\ server' \in close(server)
  /\ last' = DidState(name, "", Null, Null, FALSE)
  /\ NoHandler

\* The exit of a handler that does not wait for the 'close' event.
drainedAlways(s) == TRUE

\* The 'close' event: the listener has stopped and no connection is open.
drained(s) == ~s.listening /\ \A c \in Conns : s.conns[c] = "none"

\* The callback of server.close: process.exit(0).
closed ==
  /\ ~server.exited
  /\ server.onClose
  /\ drained(server)
  /\ server' = [server EXCEPT !.exited = TRUE]
  /\ last' = DidState("exit", "", Null, Null, FALSE)
  /\ NoHandler

\* ------------------------------------------------------------ initial state
\* The two requests that SpecRace follows, and the project each addresses.
Reqs == {1, 2}
ReqProject(r) == IF r = 1 THEN "a" ELSE "b"

\* state.json as an earlier run of the dashboard (or its operator) left it.
InitObj(pid, tunnelPid, tunnelUrl) ==
  [pid |-> pid,
   startedAt |-> IF pid.t = "number" THEN Num(0) ELSE pid,
   tunnelPid |-> tunnelPid,
   tunnelStartedAt |-> IF tunnelPid.t = "number" THEN Num(0) ELSE tunnelPid,
   tunnelUrl |-> tunnelUrl,
   tunnelUrlDiscoveredAt |-> IF tunnelUrl.t = "string" THEN Num(0) ELSE tunnelUrl]

\* What the entry of a configured project may hold at the start: a pid without
\* meaning, the pid of an app, or the pid and URL of a tunnel.
InitObjs ==
  {InitObj(Num(0), Absent, Absent)}
  \cup {InitObj(Num(n), Absent, Absent) : n \in StalePids}
  \cup {InitObj(Null, Num(n), Str(u)) : n \in StalePids, u \in Urls}

\* The entry of a project that is no longer configured.
OtherObj == InitObj(Null, Null, Null)

InitDocs ==
  {NoFile} \cup
  {[file |-> TRUE, keys |-> K,
    obj |-> [p \in Ids |-> IF p \notin K THEN EmptyObj
                           ELSE IF p \in Projects THEN o[p] ELSE OtherObj]] :
     K \in SUBSET Ids, o \in [Projects -> InitObjs]}

NoReq == [op |-> "", pc |-> "idle", concurrent |-> FALSE, wrote |-> FALSE,
          stateObject |-> EmptyObj, state |-> EmptyState]

InitLifecycle(docs) ==
  /\ doc \in docs
  /\ procs \in [Pids -> Statuses]
  /\ \A n \in Pids \ StalePids : procs[n] = "free"
  /\ nextPid = Cardinality(StalePids) + 1
  /\ child = [n \in Pids |-> NoChild]
  /\ last = Did("init", "", Null, Null, <<>>, FALSE, FALSE)
  /\ stopped = [p \in Ids |-> FALSE]
  /\ firstUrl = [n \in Pids |-> Absent]
  /\ urlWrites = [n \in Pids |-> 0]
  /\ reqs = [r \in Reqs |-> NoReq]
  /\ running = 0
  /\ server = Listening

\* The dashboard on a host where spawn succeeds, its configuration loaded.
InitWith(docs) ==
  /\ InitLifecycle(docs)
  /\ faults = {}
  /\ config = [file |-> RunConfig, cached |-> RunConfig]
  /\ res = NoRes

Init == InitWith(InitDocs)

\* The lifecycle functions called directly, outside a request.
callStartProject(id) == startProject(id) /\ UNCHANGED <<config, res>>
callStopProject(id) == stopProject(id) /\ UNCHANGED <<config, res>>
callStartTunnel(id) == startTunnel(id) /\ UNCHANGED <<config, res>>
callStopTunnel(id) == stopTunnel(id) /\ UNCHANGED <<config, res>>

Next ==
  \/ \E id \in Projects : callStartProject(id)
  \/ \E id \in Projects : callStopProject(id)
  \/ \E id \in Projects : callStartTunnel(id)
  \/ \E id \in Projects : callStopTunnel(id)
  \/ \E pid \in Pids, output \in Chunks : stdoutData(pid, output)
  \/ \E pid \in Pids : exit(pid)

Spec == Init /\ [][Next]_vars

\* ----------------------------------------- two requests, statement by statement
\* POST /api/projects/:id/start and /stop, followed through the statements of
\* startProject/stopProject and setProjectState, to see which interleavings of
\* two requests the dashboard admits.
AllDocs ==
  {NoFile} \cup
  {[file |-> TRUE, keys |-> K,
    obj |-> [p \in Ids |-> IF p \in K THEN o[p] ELSE EmptyObj]] :
     K \in SUBSET Ids, o \in [Ids -> InitObjs]}

\* Between the call of setProjectState and the return of saveState.
mid(r) == reqs[r].pc \in {"called", "loaded"}

\* A scheduling the handlers do not have: a handler runs whenever it likes.
mayRunAnyTime(r) == TRUE

\* The route handlers, startProject/stopProject and the stateService are
\* synchronous (readFileSync/writeFileSync, no await, no callback): a handler
\* runs from its first statement to its response before the event loop starts
\* another one.
mayRun(r) == running = 0 \/ running = r

\* The request reaches the server and waits for the event loop.
reqArrive(r, op) ==
  /\ reqs[r].pc = "idle"
  /\ reqs' = [reqs EXCEPT ![r] =
                [@ EXCEPT !.op = op, !.pc = "pending",
                          !.concurrent = \E o \in Reqs \ {r} : mid(o)]]
  /\ UNCHANGED <<doc, procs, nextPid, child, last, stopped, firstUrl, urlWrites,
                 running, faults, server, config, res>>

\* The handler up to its call of setProjectState: startProject lines 34-86,
\* stopProject lines 101-139.
reqBegin(r) ==
  LET id == ReqProject(r)
      pid == Get(getProjectState(doc, id).pid)
      returns == /\ reqs' = [reqs EXCEPT ![r].pc = "done"]
                 /\ UNCHANGED <<procs, nextPid, child, running>>
      calls(stateObject) ==
                 /\ reqs' = [reqs EXCEPT ![r] =
                               [@ EXCEPT !.pc = "called",
                                         !.stateObject = stateObject]]
                 /\ running' = r
  IN  /\ reqs[r].pc = "pending"
      /\ mayRun(r)
      /\ UNCHANGED <<doc, last, stopped, firstUrl, urlWrites, faults, server, config, res>>
      /\ IF reqs[r].op = "start"
         THEN IF isProcessAlive(pid) THEN returns
              ELSE /\ Spawn("app", id)
                   /\ \E now \in Times :
                        calls(startedState(getProjectState(doc, id), childPid, now))
         ELSE IF nothingToStop(pid) THEN returns
              ELSE /\ calls(stoppedState(getProjectState(doc, id)))
                   /\ UNCHANGED <<procs, nextPid, child>>

\* setProjectState: const state = loadState()
reqLoad(r) ==
  /\ reqs[r].pc = "called"
  /\ mayRun(r)
  /\ reqs' = [reqs EXCEPT ![r] = [@ EXCEPT !.pc = "loaded", !.state = loadState(doc)]]
  /\ UNCHANGED <<doc, procs, nextPid, child, last, stopped, firstUrl, urlWrites,
                 running, faults, server, config, res>>

\* setProjectState: state.projects[projectId] = stateObject; saveState(state);
\* then the handler builds its response and returns.
reqSave(r) ==
  /\ reqs[r].pc = "loaded"
  /\ mayRun(r)
  /\ doc' = saveState(putProject(reqs[r].state, ReqProject(r), reqs[r].stateObject))
  /\ reqs' = [reqs EXCEPT ![r] = [@ EXCEPT !.pc = "done", !.wrote = TRUE]]
  /\ running' = 0
  /\ UNCHANGED <<procs, nextPid, child, last, stopped, firstUrl, urlWrites,
                 faults, server, config, res>>

InitAll == InitWith(AllDocs)

NextRace ==
  \/ \E r \in Reqs, op \in {"start", "stop"} : reqArrive(r, op)
  \/ \E r \in Reqs : reqBegin(r)
  \/ \E r \in Reqs : reqLoad(r)
  \/ \E r \in Reqs : reqSave(r)
  \/ \E pid \in Pids : exit(pid)

SpecRace == InitAll /\ [][NextRace]_vars

\* ------------------------------------------------- stateService, called directly
\* The objects a caller hands to setProjectState.
ArgObjs ==
  {InitObj(pid, t[1], t[2]) :
     pid \in {Num(n) : n \in StalePids} \cup {Null, Undefined},
     t \in {<<Absent, Absent>>, <<Undefined, Null>>}
           \cup {<<Num(n), Str(u)>> : n \in StalePids, u \in Urls}}

callSetProjectState(projectId, stateObject) ==
  /\ doc' = setProjectState(doc, projectId, stateObject)
  /\ last' = Did("setProjectState", projectId, Null, Undefined, <<>>, FALSE, TRUE)
  /\ UNCHANGED <<procs, nextPid, child, stopped, firstUrl, urlWrites, reqs, running,
                 faults, server, config, res>>

callGetProjectState(projectId) ==
  /\ last' = DidState("getProjectState", projectId, Null,
                      getProjectStateRun(doc, projectId).ret, FALSE)
  /\ doc' = getProjectStateRun(doc, projectId).file
  /\ UNCHANGED <<procs, nextPid, child, stopped, firstUrl, urlWrites, reqs,
                 running, faults, server, config, res>>

\* The documents a caller hands to saveState.
ArgStates ==
  {[keys |-> K, obj |-> [p \in Ids |-> IF p \in K THEN o[p] ELSE EmptyObj]] :
     K \in SUBSET Ids, o \in [Ids -> ArgObjs]}

\* saveState(state), and the loadState() that follows it at once.
callSaveState(state) ==
  /\ doc' = saveState(state)
  /\ last' = DidState("saveState", "", state, loadState(doc'), TRUE)
  /\ UNCHANGED <<procs, nextPid, child, stopped, firstUrl, urlWrites, reqs, running,
                 faults, server, config, res>>

NextState ==
  \/ \E projectId \in Ids, stateObject \in ArgObjs :
       callSetProjectState(projectId, stateObject)
  \/ \E projectId \in Ids : callGetProjectState(projectId)
  \/ \E state \in ArgStates : callSaveState(state)

SpecState == InitAll /\ [][NextState]_vars

\* ----------------------------------------------- the validator, called directly
\* Entries a projects array is given at most.
MaxProjects == 2

\* Values of a port field: in range, at both ends of the range, beyond them,
\* fractional, of another type, missing.
Ports ==
  {Num(3000), Num(0), Num(MaxPort), Num(0 - 1), Num(MaxPort + 1), Half(80),
   Str("80"), Null, Absent, Undefined}

\* Entries of a projects array: objects with each field right, wrong or
\* missing, and values that are no objects.
Entries ==
  [id : {Str("a"), Absent}, name : {Str("n"), Absent}, dir : {Str("d"), Str(" ")},
   start : {Str("s"), Str("")},
   port : {Num(3000), Absent, Str("80"), Num(MaxPort + 1)}]
  \cup {Null, Str("p")}

SeqsUpTo(S, n) == UNION {[1..k -> S] : k \in 0..n}

\* The documents handed to validateConfig.
ConfigDocs ==
  {Null, Undefined, Str("c"), Arr(<<>>)}
  \cup {[port |-> port, projects |-> projects] :
          port \in Ports,
          projects \in {Absent, Null, Str("p"), ProjectDef("a", 3000), Arr(<<>>),
                        Arr(<<ProjectDef("a", 3000)>>), Arr(<<Null>>)}}
  \cup {[port |-> Num(8787), projects |-> Arr(items)] :
          items \in SeqsUpTo(Entries, MaxProjects)}

callValidateConfig ==
  /\ last' = DidState("validateConfig", "", config.file,
                      validateConfig(config.file), FALSE)
  /\ UNCHANGED <<doc, procs, nextPid, child, stopped, firstUrl, urlWrites, reqs,
                 running, faults, server, config, res>>

InitValidate ==
  /\ InitLifecycle({NoFile})
  /\ procs = [n \in Pids |-> "free"]
  /\ faults = {}
  /\ config \in {[file |-> d, cached |-> Null] : d \in ConfigDocs}
  /\ res = NoRes

NextValidate == callValidateConfig

SpecValidate == InitValidate /\ [][NextValidate]_vars

\* ------------------------------------------- the configService, called directly
\* A configuration with another port and another project.
OtherConfig ==
  [port |-> Num(9000), projects |-> Arr(<<ProjectDef("b", 4000)>>)]

\* A document that validateConfig rejects.
InvalidConfig == [port |-> Absent, projects |-> Arr(<<ProjectDef("a", 3000)>>)]

\* An entry that is the project definition of a but for one field.
EntryBut(field, value) == [ProjectDef("a", 3000) EXCEPT ![field] = value]

\* Documents that validateConfig rejects, each for another reason.
InvalidConfigs ==
  {InvalidConfig, Null, Arr(<<>>),
   [port |-> Str("80"), projects |-> Arr(<<>>)],
   [port |-> Num(MaxPort + 1), projects |-> Arr(<<>>)],
   [port |-> Num(8787), projects |-> Absent]}
  \cup {[port |-> Num(8787), projects |-> Arr(<<entry>>)] :
          entry \in {Null, EntryBut("id", Absent), EntryBut("dir", Str(" ")),
                     EntryBut("port", Str("80")), EntryBut("port", Num(MaxPort + 1))}}

\* A document that validateConfig accepts though two entries have the same id.
TwiceConfig ==
  [port |-> Num(8787),
   projects |-> Arr(<<ProjectDef("a", 3000), ProjectDef("a", 4000)>>)]

\* What dashboard.config.json may be.
ConfigFiles ==
  {NoConfigFile, BadJson, RunConfig, OtherConfig, TwiceConfig} \cup InvalidConfigs

\* One call of the configService.
callConfig(op, id, result) ==
  /\ config' = result.config
  /\ last' = [DidConfig(op, id, result.ret, result.read)
                EXCEPT !.error = result.error]
  /\ UNCHANGED <<doc, procs, nextPid, child, stopped, firstUrl, urlWrites, reqs,
                 running, faults, server, res>>

callLoadConfig == callConfig("loadConfig", "", loadConfig(config))
callReloadConfig == callConfig("reloadConfig", "", reloadConfig(config))
callGetProject(id) == callConfig("getProject", id, getProject(config, id))
callGetAllProjects == callConfig("getAllProjects", "", getAllProjects(config))
callGetConfig == callConfig("getConfig", "", getConfig(config))

\* dashboard.config.json is edited, created or removed.
editConfigFile(file) ==
  /\ file # config.file
  /\ config' = [config EXCEPT !.file = file]
  /\ last' = DidConfig("edit", "", Null, FALSE)
  /\ UNCHANGED <<doc, procs, nextPid, child, stopped, firstUrl, urlWrites, reqs,
                 running, faults, server, res>>

InitConfig ==
  /\ InitLifecycle({NoFile})
  /\ procs = [n \in Pids |-> "free"]
  /\ faults = {}
  /\ config \in {[file |-> file, cached |-> Null] : file \in ConfigFiles}
  /\ res = NoRes

NextConfig ==
  \/ callLoadConfig
  \/ callReloadConfig
  \/ \E id \in Ids : callGetProject(id)
  \/ callGetAllProjects
  \/ callGetConfig
  \/ \E file \in ConfigFiles : editConfigFile(file)

SpecConfig == InitConfig /\ [][NextConfig]_vars

\* --------------------------------------------------- requests to the routes
\* state.json at the first request: missing, or with the entry of a project
\* that is no longer configured.
RouteDocs == {d \in InitDocs : d = NoFile \/ d.keys = {"b"}}

\* The dashboard on a host where spawn may fail in both ways; the
\* configuration is read by the first request that needs it.
InitRoutes ==
  /\ InitLifecycle(RouteDocs)
  /\ procs = [n \in Pids |-> "free"]
  /\ faults = {"threw", "nopid"}
  /\ config = [file |-> RunConfig, cached |-> Null]
  /\ res = NoRes

NextRoutes ==
  \/ \E id \in Ids : routeStatus(id)
  \/ \E id \in Ids : routeStart(id)
  \/ \E id \in Ids : routeStop(id)
  \/ \E id \in Ids : routeTunnelStart(id)
  \/ \E id \in Ids : routeTunnelStop(id)
  \/ \E id \in Ids, type \in {Absent, Str("x")} : routeLogs(id, type, Absent, NoLog)
  \/ \E pid \in Pids : exit(pid)

SpecRoutes == InitRoutes /\ [][NextRoutes]_vars

\* ------------------------------------------------------ requests for a log
\* The longest maxBytes parameter, and the characters it is made of.
MaxQuery == 2
QueryChars == {"0", "2", "-", "x"}

\* The type and maxBytes parameters a request may carry.
LogTypes == {Absent, Str(""), Str("app"), Str("tunnel"), Str("x")}
MaxBytesQueries == {Absent} \cup {Chars(cs) : cs \in SeqsUpTo(QueryChars, MaxQuery)}

\* What the log file asked for may be.
LogFiles == {NoLog, Unreadable, LogFile(<<"x", "y", "z">>)}

InitLogs ==
  /\ InitLifecycle({NoFile})
  /\ procs = [n \in Pids |-> "free"]
  /\ faults = {}
  /\ config = [file |-> RunConfig, cached |-> Null]
  /\ res = NoRes

NextLogs ==
  \E id \in Projects, type \in LogTypes, maxBytes \in MaxBytesQueries,
     file \in LogFiles :
    routeLogs(id, type, maxBytes, file)

SpecLogs == InitLogs /\ [][NextLogs]_vars

\* ------------------------------------------------ the logService, called directly
\* The longest message and the longest log file, in characters.
MaxMessage == 3
MaxLog == 2

\* The project and the log type that a call names: both given, or one of
\* them missing.
LogNames ==
  {[projectId |-> Str("a"), logType |-> Str("app")],
   [projectId |-> Str(""), logType |-> Str("app")],
   [projectId |-> Null, logType |-> Str("app")],
   [projectId |-> Str("a"), logType |-> Str("")]}

\* The messages that appendLog is given.
Messages == {Null} \cup {Chars(cs) : cs \in SeqsUpTo({"x", "\n"}, MaxMessage)}

\* The arguments of a call of appendLog: any message for a log that is named,
\* one message for a log that is not.
AppendArgs ==
  {[name |-> name, message |-> message] :
     name \in LogNames, message \in Messages}
  \ {a \in [name : LogNames, message : Messages] :
        a.name.projectId # Str("a") /\ a.message # Chars(<<"x">>)}

\* The arguments of a call of readLog, likewise.
ReadArgs ==
  {a \in [name : LogNames, maxBytes : {Undefined} \cup {Num(m) : m \in 0..(MaxLog + 1)}] :
     a.name.projectId = Str("a") \/ a.maxBytes = Undefined}

\* The log file before a call of appendLog: none, one that cannot be opened,
\* one that holds a byte.
AppendsTo == {NoLog, Unreadable, LogFile(<<"y">>)}

\* The log file before a call of readLog: none, one that cannot be opened, or
\* its bytes.
LogsBefore ==
  {NoLog, Unreadable} \cup {LogFile(bytes) : bytes \in SeqsUpTo({"x", "y"}, MaxLog)}

\* A call of appendLog.
callAppendLog(projectId, logType, message, now, file) ==
  LET r == appendLog(file, projectId, logType, message, now)
      arg == [projectId |-> projectId, logType |-> logType, message |-> message,
              now |-> now, file |-> file]
  IN  /\ last' = [DidState("appendLog", "", arg, r.file, r.file # file)
                    EXCEPT !.error = r.error]
      /\ UNCHANGED <<doc, procs, nextPid, child, stopped, firstUrl, urlWrites, reqs,
                     running, faults, server, config, res>>

\* A call of readLog(projectId, logType, maxBytes); maxBytes is 20000 when it
\* is left out.
callReadLog(projectId, logType, maxBytes, file) ==
  LET arg == [projectId |-> projectId, logType |-> logType, maxBytes |-> maxBytes,
              file |-> file]
      ret == IF Falsy(projectId) \/ Falsy(logType) THEN Thrown
             ELSE readLog(file, IF maxBytes = Undefined THEN Num(DefaultMaxBytes)
                                ELSE maxBytes)
  IN  /\ last' = [DidState("readLog", "", arg, ret, FALSE)
                    EXCEPT !.read = ret # Thrown \/ file = Unreadable]
      /\ UNCHANGED <<doc, procs, nextPid, child, stopped, firstUrl, urlWrites, reqs,
                     running, faults, server, config, res>>

NextLogService ==
  \/ \E a \in AppendArgs, now \in Times, file \in AppendsTo :
       callAppendLog(a.name.projectId, a.name.logType, a.message, now, file)
  \/ \E a \in ReadArgs, file \in LogsBefore :
       callReadLog(a.name.projectId, a.name.logType, a.maxBytes, file)

SpecLogService == InitLogs /\ [][NextLogService]_vars

\* ------------------------------------------------- requests for static files
\* The longest request path, in segments, and the segments it is made of.
MaxPath == 3
PathSegments ==
  {<<"..">>, <<".">>, <<"api">>, <<"a.css">>, <<"public">>, <<"public", "2">>}

\* A request that reaches the middleware.
requestStatic(reqPath) ==
  /\ last' = DidState("staticFiles", "", reqPath, staticFiles(reqPath), FALSE)
  /\ UNCHANGED <<doc, procs, nextPid, child, stopped, firstUrl, urlWrites, reqs,
                 running, faults, server, config, res>>

NextStatic == \E reqPath \in SeqsUpTo(PathSegments, MaxPath) : requestStatic(reqPath)

SpecStatic == InitLogs /\ [][NextStatic]_vars

\* ------------------------------------------------------- the server shuts down
\* The dashboard with nothing recorded and no process of its own.
InitShutdown ==
  /\ InitWith({NoFile})
  /\ \A n \in Pids : procs[n] = "free"

\* A handler runs while its request is on a connection.
handling == ~server.exited /\ \E c \in Conns : server.conns[c] = "busy"

NextShutdown ==
  \/ \E c \in Conns : accept(c)
  \/ \E c \in Conns : request(c)
  \/ \E c \in Conns : finish(c)
  \/ \E c \in Conns : end(c)
  \/ \E id \in Projects : handling /\ callStartProject(id)
  \/ \E id \in Projects : handling /\ callStopProject(id)
  \/ \E name \in {"SIGTERM", "SIGINT"} : signal(name)
  \/ closed

SpecShutdown == InitShutdown /\ [][NextShutdown]_vars

\* The event loop runs the callback of server.close once the 'close' event is
\* due; a response that is being written is finished, and a connection that
\* stays without a request is ended by its keep-alive timeout.
FairShutdown ==
  /\ WF_vars(closed)
  /\ \A c \in Conns : WF_vars(finish(c))
  /\ \A c \in Conns : WF_vars(end(c))

SpecShutdownFair == SpecShutdown /\ FairShutdown

\* ------------------------------------------------- a project with local port 0
\* A configuration that validateConfig accepts: 0 is a port of the range.
ZeroPortConfig ==
  [port |-> Num(8787), projects |-> Arr(<<ProjectDef("a", 0)>>)]

InitZeroPort ==
  /\ InitLifecycle(RouteDocs)
  /\ procs = [n \in Pids |-> "free"]
  /\ faults = {}
  /\ config = [file |-> ZeroPortConfig, cached |-> Null]
  /\ res = NoRes

SpecZeroPort == InitZeroPort /\ [][NextRoutes]_vars

\* ------------------------------------------------ a host without stale processes
\* No state file, no process of an earlier run: the first process the
\* dashboard spawns gets the first pid.
InitFreshHost ==
  /\ doc = NoFile
  /\ procs = [n \in Pids |-> "free"]
  /\ nextPid = 1
  /\ child = [n \in Pids |-> NoChild]
  /\ last = Did("init", "", Null, Null, <<>>, FALSE, FALSE)
  /\ stopped = [p \in Ids |-> FALSE]
  /\ firstUrl = [n \in Pids |-> Absent]
  /\ urlWrites = [n \in Pids |-> 0]
  /\ reqs = [r \in Reqs |-> NoReq]
  /\ running = 0
  /\ server = Listening
  /\ faults = {}
  /\ config = [file |-> RunConfig, cached |-> RunConfig]
  /\ res = NoRes

SpecFreshHost == InitFreshHost /\ [][Next]_vars

\* ------------------------------------------------- log writes that may fail
\* The dashboard on a host where appending to a log file may fail (the disk is
\* full, the logs directory is not writable).
InitLogFaults ==
  /\ InitLifecycle(InitDocs)
  /\ faults = {"nolog"}
  /\ config = [file |-> RunConfig, cached |-> RunConfig]
  /\ res = NoRes

NextLogFaults ==
  \/ \E id \in Projects : callStartProject(id)
  \/ \E id \in Projects : callStopProject(id)
  \/ \E id \in Projects : callStartTunnel(id)
  \/ \E id \in Projects : callStopTunnel(id)
  \/ \E pid \in Pids : exit(pid)

SpecLogFaults == InitLogFaults /\ [][NextLogFaults]_vars

\* ================================================================= claims
\* The process a recorded pid names exists and takes the dashboard's signals.
Signalable(pid) ==
  pid.t = "number" /\ pid.v \in Pids /\ procs[pid.v] \in {"leader", "member"}

\* The step just taken was the call op for project id.
Called(op, id) == last'.op = op /\ last'.id = id

\* C1: startProject is idempotent. Called while the process recorded for the
\* project is alive, it returns the recorded pid, spawns no process and leaves
\* state.json as it is.
C1_StartIdempotent ==
  [][\A id \in Projects :
       (Called("startProject", id) /\ Signalable(getProjectState(doc, id).pid))
         => /\ last'.ret = getProjectState(doc, id).pid
            /\ ~last'.spawned
            /\ nextPid' = nextPid /\ procs' = procs /\ child' = child
            /\ ~last'.wrote
            /\ doc' = doc]_vars

\* A second startProject returned the pid of the live process that the first
\* one spawned.
C1_SecondStart ==
  /\ last.op = "startProject" /\ ~last.spawned
  /\ last.ret.t = "number"
  /\ child[last.ret.v] = [kind |-> "app", id |-> last.id, urlCaptured |-> FALSE]
  /\ procs[last.ret.v] = "leader"

\* C2: from the return of stopProject until the next startProject of the
\* project, isProjectRunning is false and getProjectPid is null, whatever
\* became of the kill attempts.
C2_StoppedStaysStopped ==
  \A id \in Projects :
    stopped[id] => ~isProjectRunning(id) /\ getProjectPid(id) = Null

\* stopProject returned false after both kill attempts failed on a process
\* that still exists.
C2_KillFailedStillStopped ==
  /\ last.op = "stopProject" /\ stopped[last.id]
  /\ Len(last.sigs) = 2 /\ ~last.sigs[1].ok /\ ~last.sigs[2].ok
  /\ Exists(last.sigs[2].target)
  /\ ~isProjectRunning(last.id)

\* C3: stopProject of a project whose recorded pid is absent, null or 0
\* returns false, sends no signal and does not write state.json.
C3_NothingToStop ==
  [][\A id \in Projects :
       (Called("stopProject", id) /\ Falsy(Get(getProjectState(doc, id).pid)))
         => /\ last'.ret = Bool(FALSE)
            /\ last'.sigs = <<>>
            /\ ~last'.wrote
            /\ doc' = doc /\ procs' = procs]_vars

\* stopProject returned false for a recorded pid of 0.
C3_StopWithPidZero ==
  /\ last.op = "stopProject" /\ last.ret = Bool(FALSE) /\ last.sigs = <<>>
  /\ getProjectState(doc, last.id).pid = Num(0)

\* C4: getTunnelUrl returns null whenever the recorded tunnel pid is absent or
\* not alive, whatever URL is stored, and returns the stored URL only when the
\* recorded tunnel pid is assessed alive.
C4_DeadTunnelHidesUrl ==
  \A id \in Projects :
    LET projectState == getProjectState(doc, id)
    IN  /\ ~Signalable(projectState.tunnelPid) => getTunnelUrl(id) = Null
        /\ getTunnelUrl(id) # Null =>
             /\ Signalable(projectState.tunnelPid)
             /\ getTunnelUrl(id) = projectState.tunnelUrl

\* The tunnel that startTunnel spawned printed its URL and then exited: the URL
\* is still stored, and is not returned.
C4_StaleUrlHidden ==
  \E id \in Projects :
    LET projectState == getProjectState(doc, id)
    IN  /\ projectState.tunnelUrl.t = "string"
        /\ projectState.tunnelPid.t = "number"
        /\ child[projectState.tunnelPid.v] =
             [kind |-> "tunnel", id |-> id, urlCaptured |-> TRUE]
        /\ procs[projectState.tunnelPid.v] = "free"
        /\ getTunnelUrl(id) = Null

\* C5: of the output of one tunnel process, the first chunk that holds a public
\* URL makes the one state write (the leftmost URL of that chunk and a discovery
\* timestamp); every other chunk of the process, also one that holds a URL,
\* leaves state.json as it is.
C5_FirstUrlOnce ==
  [][last'.op = "stdout" =>
       LET pid == last'.pid.v
           id == child[pid].id
       IN  IF firstUrl[pid] = Absent /\ firstUrl'[pid] # Absent
           THEN /\ getProjectState(doc', id).tunnelUrl = firstUrl'[pid]
                /\ getProjectState(doc', id).tunnelUrlDiscoveredAt.t = "number"
                /\ urlWrites'[pid] = 1
           ELSE /\ doc' = doc
                /\ urlWrites'[pid] = urlWrites[pid]]_vars

\* A later chunk of the process held another URL and was not written.
C5_LaterUrlIgnored ==
  /\ last.op = "stdout" /\ ~last.wrote
  /\ last.ret.t = "string"
  /\ firstUrl[last.pid.v].t = "string"
  /\ last.ret # firstUrl[last.pid.v]
  /\ getProjectState(doc, last.id).tunnelUrl = firstUrl[last.pid.v]
  /\ urlWrites[last.pid.v] = 1

AppFields == {"pid", "startedAt"}
TunnelFields == {"tunnelPid", "tunnelStartedAt", "tunnelUrl"}

\* The step left the fields ks of the project's stored object as they were.
Kept(id, ks) ==
  \A k \in ks : getProjectState(doc', id)[k] = getProjectState(doc, id)[k]

\* C6: startProject and stopProject leave the project's tunnelPid,
\* tunnelStartedAt and tunnelUrl unchanged; startTunnel and stopTunnel leave its
\* pid and startedAt unchanged.
C6_LifecyclesIndependent ==
  [][\A id \in Projects :
       /\ (Called("startProject", id) \/ Called("stopProject", id))
            => Kept(id, TunnelFields)
       /\ (Called("startTunnel", id) \/ Called("stopTunnel", id))
            => Kept(id, AppFields)]_vars

\* startProject spawned a process for a project whose tunnel fields are set.
C6_StartKeepsTunnel ==
  /\ last.op = "startProject" /\ last.spawned
  /\ getProjectState(doc, last.id).tunnelPid.t = "number"
  /\ getProjectState(doc, last.id).tunnelStartedAt.t = "number"
  /\ getProjectState(doc, last.id).tunnelUrl.t = "string"

\* C7: with a pid recorded, stopProject and stopTunnel return true exactly when
\* one of their kill attempts succeeded, and false when both failed.
C7_StopReturnsKilled ==
  (last.op \in {"stopProject", "stopTunnel"} /\ last.wrote)
    => /\ last.sigs # <<>>
       /\ last.ret = Bool(\E i \in DOMAIN last.sigs : last.sigs[i].ok)

\* The group could not be signalled, the process could: the stop returned true.
C7_FallbackKill ==
  /\ last.op \in {"stopProject", "stopTunnel"}
  /\ Len(last.sigs) = 2 /\ ~last.sigs[1].ok /\ last.sigs[2].ok
  /\ last.ret = Bool(TRUE)

Present(r) ==
  /\ ReqProject(r) \in loadState(doc).keys
  /\ getProjectState(doc, ReqProject(r)) = Stringify(reqs[r].stateObject)

\* C9 (as the dashboard behaves): the read-modify-write cycles of two start or
\* stop requests for different projects never overlap, and the update of each
\* request that wrote is in state.json from its save on: no write is lost.
C9_NoLostUpdate ==
  /\ \A r1, r2 \in Reqs : (mid(r1) /\ mid(r2)) => r1 = r2
  /\ \A r \in Reqs : reqs[r].wrote => Present(r)

\* Two requests that were in the server at the same time (one arrived while the
\* other was between its load and its save) have both written, and both
\* updates are there.
C9_BothUpdatesKept ==
  /\ \A r \in Reqs : reqs[r].pc = "done" /\ reqs[r].wrote /\ Present(r)
  /\ \E r \in Reqs : reqs[r].concurrent

\* C9 (as stated): the read-modify-write cycles of two concurrent requests for
\* different projects can overlap, so that the last writer wins: while one
\* request is between its load and its save, a waiting request may run.
C9_CyclesOverlap ==
  \A r1, r2 \in Reqs :
    (r1 # r2 /\ mid(r1) /\ reqs[r2].pc = "pending") => mayRun(r2)

\* C10: setProjectState(id, s) changes the entry of id alone: every other
\* identifier has the same entry, or no entry, after the call as before it.
C10_OtherEntriesKept ==
  [][last'.op = "setProjectState" =>
       \A other \in Ids \ {last'.id} :
         /\ (other \in loadState(doc').keys) = (other \in loadState(doc).keys)
         /\ getProjectState(doc', other) = getProjectState(doc, other)]_vars

\* setProjectState replaced the entry of one project while the other project
\* had an entry with a pid.
C10_OtherEntryThere ==
  /\ last.op = "setProjectState"
  /\ getProjectState(doc, last.id).pid = Null
  /\ \E other \in Ids \ {last.id} :
       /\ other \in loadState(doc).keys
       /\ getProjectState(doc, other).pid.t = "number"

\* C11: getProjectState of an identifier that has no entry in the state
\* document, the case of a state file that does not exist included, returns
\* the empty object (every field absent) and leaves state.json as it is.
C11_NoEntryEmptyObject ==
  [][\A id \in Ids :
       (Called("getProjectState", id) /\ id \notin loadState(doc).keys)
         => /\ last'.ret = EmptyObj
            /\ \A k \in Fields : last'.ret[k] = Absent
            /\ doc' = doc]_vars

\* getProjectState returned the empty object while state.json did not exist.
C11_ReadWithoutFile ==
  /\ last.op = "getProjectState" /\ ~doc.file
  /\ last.ret = EmptyObj

\* The document read back has the entries of d, each field as written except
\* that a field which held undefined reads as gone.
ReadBack(d, back, gone) ==
  /\ back.keys = d.keys
  /\ \A p \in d.keys, k \in Fields :
       back.obj[p][k] = IF d.obj[p][k] = Undefined THEN gone ELSE d.obj[p][k]

C13_EntriesNeverRemoved ==
  [][/\ loadState(doc).keys \subseteq loadState(doc').keys
     /\ \A id \in Projects :
          ((Called("stopProject", id) \/ Called("stopTunnel", id)) /\ last'.wrote)
            => id \in loadState(doc').keys]_vars

\* stopProject cleared the pid of a project; its entry and the entry of the
\* other project are still there.
C13_EntryAfterStop ==
  /\ last.op = "stopProject" /\ last.wrote
  /\ loadState(doc).keys = Ids
  /\ lookup(loadState(doc), last.id).pid = Null

TunnelCleared == {"tunnelPid", "tunnelStartedAt", "tunnelUrl",
                  "tunnelUrlDiscoveredAt"}

\* C14: with a tunnel pid recorded, stopTunnel makes one write to state.json
\* that sets tunnelPid, tunnelStartedAt, tunnelUrl and tunnelUrlDiscoveredAt
\* to null together and leaves every other field, whether a kill succeeded
\* (it returned true) or not (it returned false).
C14_StopTunnelClearsFour ==
  [][\A id \in Projects :
       (Called("stopTunnel", id)
          /\ ~Falsy(Get(getProjectState(doc, id).tunnelPid)))
         => /\ last'.wrote
            /\ last'.ret \in {Bool(TRUE), Bool(FALSE)}
            /\ \A k \in TunnelCleared : getProjectState(doc', id)[k] = Null
            /\ doc' = setProjectState(doc, id,
                        [k \in Fields |-> IF k \in TunnelCleared THEN Null
                                          ELSE getProjectState(doc, id)[k]])]_vars

\* stopTunnel could signal neither the group nor the process of a tunnel that
\* still exists, returned false, and the four fields are null.
C14_ClearedThoughKillFailed ==
  /\ last.op = "stopTunnel" /\ last.ret = Bool(FALSE)
  /\ Len(last.sigs) = 2 /\ Exists(last.sigs[2].target)
  /\ \A k \in TunnelCleared : getProjectState(doc, last.id)[k] = Null

\* The port is an integer in 0..65535.
PortInRange(port) ==
  port.t = "number" /\ "half" \notin DOMAIN port /\ port.v \in 0..MaxPort

\* The value of a key of a document, Undefined when it is missing.
Key(x, k) == IF x[k] \in {Absent, Undefined} THEN Undefined ELSE x[k]

\* The projects value is an array.
ArrayOf(x) == "t" \in DOMAIN x /\ x.t = "array"

\* The field is missing from the entry.
IsMissing(e, f) == e[f] \in {Absent, Undefined}

\* The field is there and has the wrong type or a value out of range.
IsWrong(e, f) ==
  IF f = "port" THEN ~PortInRange(e[f])
  ELSE e[f].t # "string" \/ e[f].v \in {"", " "}

AllFields == {"id", "name", "dir", "start", "port"}

\* The entry is no object, or lacks a field, or has a field that is wrong.
EntryInvalid(e) ==
  "t" \in DOMAIN e \/ \E f \in AllFields : IsMissing(e, f) \/ IsWrong(e, f)

Place(f) == CHOOSE i \in DOMAIN requiredFields : requiredFields[i] = f

\* The first of the fields of S in that order.
FirstOf(S) == CHOOSE f \in S : \A g \in S : Place(f) <= Place(g)

Loaded(cfg) == isObject(cfg.cached) /\ validateConfig(cfg.cached) = Valid

\* The first entry of the configuration c for the id, null when it has none.
EntryOf(c, id) ==
  IF \E i \in DOMAIN c.projects.items : c.projects.items[i].id = Str(id)
  THEN c.projects.items[Min({i \in DOMAIN c.projects.items :
                               c.projects.items[i].id = Str(id)})]
  ELSE Null

\* C18: while a configuration accepted by loadConfig is cached, getProject,
\* getAllProjects and getConfig answer from it and do not read the file,
\* whatever the file has become; loadConfig and reloadConfig read the file,
\* and when they accept it they return and cache its content, which the
\* getters answer from afterwards.
C18_ConfigCached ==
  [][/\ (Loaded(config) /\ last'.op \in {"getProject", "getAllProjects", "getConfig"})
        => /\ ~last'.read
           /\ config' = config
           /\ last'.op = "getConfig" => last'.ret = config.cached
           /\ last'.op = "getAllProjects" => last'.ret = config.cached.projects
           /\ last'.op = "getProject" => last'.ret = EntryOf(config.cached, last'.id)
     /\ (last'.op \in {"loadConfig", "reloadConfig"})
        => /\ last'.read
           /\ config'.file = config.file
           /\ last'.ret # Thrown
                => /\ last'.ret = config.file
                   /\ config'.cached = config.file
                   /\ Loaded(config')]_vars

\* The file was replaced by a configuration without project a after the
\* load; getProject still returned the cached definition of a.
C18_FileChangeNotSeen ==
  /\ last.op = "getProject" /\ last.id = "a"
  /\ config.cached = RunConfig /\ config.file = OtherConfig
  /\ last.ret = ProjectDef("a", 3000)
  /\ ~last.read

\* The routes under /api/projects/:id.
Routes == {"status", "start", "stop", "tunnel-start", "tunnel-stop", "logs"}

\* The loaded configuration has a project with this id.
Configured(cfg, id) ==
  /\ Loaded(cfg)
  /\ \E i \in DOMAIN cfg.cached.projects.items :
       cfg.cached.projects.items[i].id = Str(id)

\* C15: a request to any of the six routes under /api/projects/:id whose id
\* is not in the loaded configuration is answered 404 "Project not found";
\* no lifecycle function is called (nothing is spawned, signalled or written)
\* and state.json and the processes are as before.
C15_UnknownIdNotFound ==
  [][(last'.op # "exit" /\ ~Configured(config', res'.id))
       => /\ res'.route \in Routes
          /\ res'.status = 404
          /\ res'.error = "Project not found"
          /\ last'.op = "getProject"
          /\ ~last'.spawned /\ ~last'.wrote /\ last'.sigs = <<>>
          /\ UNCHANGED <<doc, procs, nextPid, child>>]_vars

\* tunnel-stop was asked for b, which has an entry in state.json and is not
\* configured, while a process of project a was running: 404.
C15_NotFoundWithStateEntry ==
  /\ res.route = "tunnel-stop" /\ res.id = "b" /\ res.status = 404
  /\ doc # NoFile /\ "b" \in doc.keys
  /\ \E n \in Pids : procs[n] # "free"

\* The type parameter names a log, or is left out or empty (then it is app).
TypeOk(type) == type \in {Absent, Str(""), Str("app"), Str("tunnel")}

\* Where the digits of a maxBytes text would start: after a minus sign.
Starts(cs) == IF cs # <<>> /\ cs[1] = "-" THEN 2 ELSE 1

\* The text starts with an integer: a digit follows the optional sign.
LeadingInteger(cs) == Starts(cs) <= Len(cs) /\ IsDigit(cs[Starts(cs)])

\* The integer the text starts with is below zero.
LeadingNegative(cs) ==
  /\ LeadingInteger(cs) /\ cs[1] = "-"
  /\ \E i \in 2..Len(cs) : cs[i] # "0" /\ \A j \in 2..i : IsDigit(cs[j])

\* The whole text is an integer.
WholeInteger(cs) ==
  /\ LeadingInteger(cs)
  /\ \A i \in Starts(cs)..Len(cs) : IsDigit(cs[i])

\* maxBytes was given (and is not empty).
Given(maxBytes) == maxBytes # Absent /\ maxBytes.chars # <<>>

C17_SpawnFailureIs500 ==
  [][(res'.route = "start" /\ last'.op = "startProject")
       => LET was == isProjectRunning(last'.id)
          IN  /\ (~last'.spawned /\ ~was) => res'.status = 500
              /\ res'.status = 200 => (last'.spawned \/ was)]_vars

\* The texts by which a caller recognises the first two failures of loadConfig.
NotFoundText == "Configuration file not found at ${CONFIG_PATH}"
MalformedText == "Invalid JSON in configuration file: ${error.message}"

\* A call that had to read the configuration file failed.
LoadFailed == last.read /\ last.ret = Thrown

\* C21: when a load of the configuration fails, the error message tells which
\* of the three failures it was: the text for a missing file comes with a
\* missing file only, the text for malformed JSON with malformed JSON only,
\* and a schema violation comes with neither of the two.
C21_FailuresTellApart ==
  LoadFailed
    => /\ last.error.message.text = NotFoundText <=> config.file = NoConfigFile
       /\ last.error.message.text = MalformedText <=> config.file = BadJson
       /\ last.error.message.text # ""

\* reloadConfig failed on a document without port: its message is the
\* validator's.
C21_SchemaFailure ==
  /\ last.op = "reloadConfig" /\ LoadFailed
  /\ config.file = InvalidConfig
  /\ last.error.message.text = "Configuration missing required field: \"port\""

\* The number of newlines that a text ends with.
RECURSIVE TrailingNewlines(_)
TrailingNewlines(cs) ==
  IF cs = <<>> \/ cs[Len(cs)] # "\n" THEN 0
  ELSE 1 + TrailingNewlines(SubSeq(cs, 1, Len(cs) - 1))

\* The bytes that a call of appendLog added to the file it was given.
Appended ==
  LET before == IF last.arg.file = NoLog THEN <<>> ELSE last.arg.file.bytes
  IN  SubSeq(last.ret.bytes, Len(before) + 1, Len(last.ret.bytes))

\* appendLog was called with an id, a type and a non-empty message for a file
\* that can be written.
AppendedTo ==
  /\ last.op = "appendLog"
  /\ last.arg.projectId = Str("a") /\ last.arg.logType = Str("app")
  /\ last.arg.message # Null /\ last.arg.message.chars # <<>>
  /\ last.arg.file # Unreadable

\* C22: for a non-empty message appendLog keeps what the file held and adds
\* "[timestamp] message", followed by a newline exactly when the message does
\* not end in one: what is added ends in one newline when the message ends in
\* at most one, and in as many newlines as the message when it ends in more.
C22_AppendsLine ==
  AppendedTo
    => LET message == last.arg.message.chars
           before == IF last.arg.file = NoLog THEN <<>> ELSE last.arg.file.bytes
           n == TrailingNewlines(message)
       IN  /\ last.error = NoError
           /\ SubSeq(last.ret.bytes, 1, Len(before)) = before
           /\ Appended = <<"[">> \o toISOString(last.arg.now) \o <<"]", " ">> \o message
                           \o (IF n = 0 THEN <<"\n">> ELSE <<>>)
           /\ TrailingNewlines(Appended) = (IF n = 0 THEN 1 ELSE n)

\* A message without newline was appended to a file that held bytes.
C22_NewlineAdded ==
  /\ AppendedTo
  /\ last.arg.message = Chars(<<"x">>)
  /\ last.arg.file = LogFile(<<"y">>)
  /\ TrailingNewlines(Appended) = 1

\* C22 as stated: what appendLog adds for a non-empty message ends in exactly
\* one newline.
C22_ExactlyOneNewline ==
  AppendedTo => TrailingNewlines(Appended) = 1

\* C23: for a log file of n bytes and maxBytes m >= 0, readLog returns the
\* last min(m, n) bytes of the file: no more than m, the end of the file and
\* not its start, and the whole file when m >= n.
C23_ReadsTail ==
  (/\ last.op = "readLog"
   /\ last.arg.projectId = Str("a") /\ last.arg.logType = Str("app")
   /\ last.arg.file \notin {NoLog, Unreadable})
    => LET bytes == last.arg.file.bytes
           n == Len(bytes)
           m == IF last.arg.maxBytes = Undefined THEN DefaultMaxBytes
                ELSE last.arg.maxBytes.v
           k == IF m < n THEN m ELSE n
       IN  /\ last.ret # Thrown
           /\ Len(last.ret.chars) = k
           /\ \A i \in 1..k : last.ret.chars[i] = bytes[n - k + i]
           /\ m >= n => last.ret.chars = bytes

\* One byte was asked of a file of two different bytes: the last one came.
C23_EndNotStart ==
  /\ last.op = "readLog"
  /\ last.arg.file = LogFile(<<"x", "y">>)
  /\ last.arg.maxBytes = Num(1)
  /\ last.ret = Chars(<<"y">>)

\* C24 as stated: a file that the static file middleware sends lies in its
\* asset root.
C24_SentFromAssetRoot ==
  (last.op = "staticFiles" /\ last.ret.sent)
    => /\ Len(last.ret.file) > Len(PublicDir)
       /\ SubSeq(last.ret.file, 1, Len(PublicDir)) = PublicDir

\* The steps of the shutdown: a signal handler and the callback of close.
ShutdownStep ==
  /\ last'.op \in {"SIGTERM", "SIGINT", "exit"}
  /\ last' # last \/ server' # server

\* What the shutdown may not do, step by step: accept a connection once the
\* signal was handled, exit while a connection is open, signal a process, or
\* write the state document.
ShutdownSafe ==
  /\ (last'.op \in {"SIGTERM", "SIGINT"} /\ last' # last) => ~server'.listening
  /\ ~server.listening
       => /\ ~server'.listening
          /\ \A c \in Conns : server.conns[c] = "none" => server'.conns[c] = "none"
  /\ (server'.exited /\ ~server.exited)
       => \A c \in Conns : server.conns[c] = "none"
  /\ ShutdownStep
       => /\ doc' = doc /\ procs' = procs
          /\ last'.sigs = <<>> /\ ~last'.wrote /\ ~last'.spawned

\* Every connection is closed.
NoConnection == \A c \in Conns : server.conns[c] = "none"

\* C25 as stated, its last part: after SIGTERM or SIGINT the dashboard process
\* eventually exits.
C25_EventuallyExits == ~server.listening ~> server.exited

\* C25: after SIGTERM or SIGINT the listener accepts no further connection,
\* the process exits only when no connection is open any more (so no request is
\* in flight), the shutdown signals no spawned process and leaves the state
\* document alone; and the process exits eventually provided the open
\* connections end, which the shutdown does not force.
C25_GracefulShutdown ==
  /\ [][ShutdownSafe]_vars
  /\ ([]<>NoConnection) => (~server.listening ~> server.exited)

\* The dashboard has exited after a request started a project, whose process
\* still runs and is still recorded.
C25_ExitedChildRuns ==
  /\ server.exited
  /\ \E pid \in Pids : procs[pid] = "leader" /\ Get(getProjectState(doc, "a").pid) = Num(pid)

\* C26 as stated: a configuration that loadConfig accepted, so that passed
\* validateConfig, has no two project definitions with the same id.
C26_IdsDistinct ==
  (last.op \in {"loadConfig", "reloadConfig"} /\ last.ret # Thrown)
    => \A i, j \in DOMAIN last.ret.projects.items :
         i # j => last.ret.projects.items[i].id # last.ret.projects.items[j].id

\* C30 as stated: the cached configuration is null or a document that passes
\* validateConfig.
C30_CachedIsValid == config.cached = Null \/ Loaded(config)

\* C27 as stated: when the lifecycle call of a route handler throws its
\* invalid-argument error, the response has a 4xx status.
C27_InvalidArgumentIs4xx ==
  (last.ret = Thrown /\ \E op \in {"startProject", "stopProject", "startTunnel",
                                   "stopTunnel"} : last.error = invalidArgument(op))
    => res.status \in 400..499

\* C28 as stated: a URL that getTunnelUrl returns for a tunnel started by this
\* dashboard was captured from the output of the process recorded as tunnelPid.
C28_UrlOfRecordedTunnel ==
  \A id \in Projects :
    LET pid == Get(getProjectState(doc, id).tunnelPid)
    IN  (/\ getTunnelUrl(id) # Null
         /\ pid.t = "number" /\ pid.v \in Pids
         /\ child[pid.v].kind = "tunnel")
          => getTunnelUrl(id) = firstUrl[pid.v]

\* The living processes that startProject spawned for the project.
AppProcesses(id) ==
  {pid \in Pids : child[pid].kind = "app" /\ child[pid].id = id /\ procs[pid] # "free"}

\* C29 as stated: at most one process that startProject spawned for a project
\* is alive.
C29_OneProcessPerProject == \A id \in Projects : Cardinality(AppProcesses(id)) <= 1

\* C31 as stated: in a project status that a handler answers, running = false
\* goes with pid = null and startedAt = null, and tunnelRunning = false with
\* tunnelPid = null and tunnelStartedAt = null.
C31_StoppedHasNoPid ==
  (res.status = 200 /\ res.route \in {"status", "start", "stop", "tunnel-start",
                                      "tunnel-stop"})
    => /\ res.body.running = Bool(FALSE)
            => res.body.pid = Null /\ res.body.startedAt = Null
       /\ res.body.tunnelRunning = Bool(FALSE)
            => res.body.tunnelPid = Null /\ res.body.tunnelStartedAt = Null

\* The lines a step wrote.
LoggedLines(l) == {l.logged[i] : i \in DOMAIN l.logged}

\* The log file and the recorded pid that a stop function works on.
StopType(op) == IF op = "stopProject" THEN "app" ELSE "tunnel"
StopPid(op, id) ==
  IF op = "stopProject" THEN Get(getProjectState(doc, id).pid)
  ELSE Get(getProjectState(doc, id).tunnelPid)

C33_OwnProcessSignalled ==
  \A i \in DOMAIN last.sigs :
    (last.op \in {"stopProject", "stopTunnel"} /\ last.sigs[i].ok)
      => LET n == IF last.sigs[i].target < 0 THEN 0 - last.sigs[i].target
                  ELSE last.sigs[i].target
         IN  /\ child[n].id = last.id
             /\ child[n].kind = StopType(last.op)

\* ------------------------------------------------- startProject's argument
\* startProject called with whatever a caller may hand it: no project, a
\* project that lacks one of id, start and dir, and a complete one.
ProjectArgs ==
  {Null, Undefined, ProjectDef("a", 3000)}
  \cup {[ProjectDef("a", 3000) EXCEPT ![k] = v] :
          k \in {"id", "start", "dir"}, v \in {Absent, Null, Str("")}}

callStartProjectOf(project) == startProjectOf(project) /\ UNCHANGED <<config, res>>

NextArgs ==
  \/ \E project \in ProjectArgs : callStartProjectOf(project)
  \/ \E id \in Projects : callStopProject(id)
  \/ \E pid \in Pids : exit(pid)

SpecArgs == InitLogFaults /\ [][NextArgs]_vars

\* What C34 calls a project lacking id, start or dir, or no project.
Lacking(project) ==
  \/ project \in {Null, Undefined}
  \/ \E k \in {"id", "start", "dir"} :
       k \notin DOMAIN project \/ project[k] \in {Absent, Undefined, Null, Str("")}

\* C34: a call of startProject with no project, or with one that lacks id,
\* start or dir, throws the invalid-argument error and does nothing else: no
\* process is spawned, no log line is written (not even a failing attempt can
\* get in the way), and state.json is as it was.
C34_InvalidStartDoesNothing ==
  [][\A project \in ProjectArgs :
       (Lacking(project) /\ callStartProjectOf(project))
         => /\ last'.ret = Thrown
            /\ last'.error = invalidArgument("startProject")
            /\ last'.logged = <<>>
            /\ ~last'.spawned /\ ~last'.wrote
            /\ UNCHANGED <<doc, procs, nextPid, child>>]_vars

\* startProject has refused a project that has an id but no start command,
\* on a host where a stopped project could have been started.
C34_RefusedWithoutStart ==
  /\ last.op = "startProject"
  /\ last.error = invalidArgument("startProject")
  /\ isObject(last.arg)
  /\ last.arg.id = Str("a") /\ last.arg.start = Absent
  /\ ~isProcessAlive(Get(getProjectState(doc, "a").pid))
  /\ nextPid <= MaxPid

\* ------------------------------------------------------ the read operations
\* One call of a function that reads a project's state and returns ret.
callRead(op, projectId, ret) ==
  /\ last' = DidState(op, projectId, Null, ret, FALSE)
  /\ Reading(projectId)
  /\ UNCHANGED <<config, res>>

callIsProjectRunning(projectId) ==
  callRead("isProjectRunning", projectId, Bool(isProjectRunning(projectId)))
callGetProjectPid(projectId) ==
  callRead("getProjectPid", projectId, getProjectPid(projectId))
callIsTunnelRunning(projectId) ==
  callRead("isTunnelRunning", projectId, Bool(isTunnelRunning(projectId)))
callGetTunnelUrl(projectId) ==
  callRead("getTunnelUrl", projectId, getTunnelUrl(projectId))

\* The reads, for configured and for unknown ids, between starts, stops and
\* deaths of the project's app.
NextReads ==
  \/ \E projectId \in Ids : callGetProjectState(projectId)
  \/ \E projectId \in Ids : callIsProjectRunning(projectId)
  \/ \E projectId \in Ids : callGetProjectPid(projectId)
  \/ \E projectId \in Ids : callIsTunnelRunning(projectId)
  \/ \E projectId \in Ids : callGetTunnelUrl(projectId)
  \/ \E id \in Ids : routeStatus(id)
  \/ routeList
  \/ \E id \in Projects : callStartProject(id)
  \/ \E id \in Projects : callStopProject(id)
  \/ \E pid \in Pids : exit(pid)

SpecReads == Init /\ [][NextReads]_vars

ReadOps ==
  {"getProjectState", "isProjectRunning", "getProjectPid", "isTunnelRunning",
   "getTunnelUrl"}

\* C35: a step of getProjectState, isProjectRunning, getProjectPid,
\* isTunnelRunning or getTunnelUrl, or a request GET /api/projects or
\* GET /api/projects/:id, leaves state.json as it was: an entry is neither
\* changed nor added, and a missing file is not created.
C35_ReadsLeaveStateFile ==
  [][(\/ last'.op \in ReadOps
      \/ (last'.op \in {"status", "list", "getProject"}
            /\ res'.route \in {"status", "list"}))
       => doc' = doc]_vars

\* getProjectState has answered {} for an id that state.json, which exists,
\* has no entry of.
C35_ReadOfUnknownId ==
  /\ last.op = "getProjectState"
  /\ last.ret = EmptyObj
  /\ doc.file
  /\ last.id \notin doc.keys

\* C36 as stated: when POST /api/projects/:id/tunnel-start reaches startTunnel,
\* with a project of a configuration that validateConfig accepted, startTunnel
\* does not throw its invalid-project error.
C36_AcceptedProjectHasTunnelPort ==
  (res.route = "tunnel-start" /\ last.op = "startTunnel" /\ Loaded(config))
    => last.error # invalidArgument("startTunnel")

\* C37 as stated: in every state.json the dashboard leaves, a project that has
\* a tunnelUrl has a tunnelPid; the URL that stopTunnel cleared is not written
\* again by the output of the tunnel that was stopped.
C37_UrlOnlyWithTunnelPid ==
  \A id \in Ids :
    LET projectState == getProjectState(doc, id)
    IN  Get(projectState.tunnelUrl) \notin {Undefined, Null}
          => Get(projectState.tunnelPid) \notin {Undefined, Null}

====
